---------------------------- MODULE Spec2Model ----------------------------
(***************************************************************************)
(* Session entrypoints of the OpenXR state tracker                         *)
(* (src/xrt/state_trackers/oxr/oxr_api_session.c).                         *)
(*                                                                         *)
(* Every entrypoint is an operator  f(w, handle, a)  from the runtime      *)
(* state w (the "world": session list, sessions, tracker handles, current  *)
(* refresh rate), the primary handle and the remaining arguments a to a    *)
(* result record [ret, w, out, calls]: the XrResult, the state after the   *)
(* call, what was written to the caller's output structure and the         *)
(* collaborator calls that were made.  The actions of Next apply these     *)
(* operators to the current state.  Code that lives outside this file      *)
(* (the OXR_VERIFY_* macros, oxr_handle_destroy, the oxr_session_*         *)
(* functions, the device and compositor) is modelled from the              *)
(* specification; its outcomes that this file cannot determine are         *)
(* inputs of the call.                                                     *)
(***************************************************************************)
EXTENDS Integers, Sequences, FiniteSets, TLC

(***************************************************************************)
(* Bounds of the model.                                                    *)
(***************************************************************************)
MaxSessions == 2
MaxTrackers == 2
\* A call's arguments differ from a valid call in at most this many places.
MaxFaults == 2
\* Frame periods a session's predicted display time advances by at most.
MaxTime == 2

(***************************************************************************)
(* Program constants (joint and expression counts of the tracker           *)
(* variants).                                                              *)
(***************************************************************************)
XR_HAND_JOINT_COUNT_EXT == 26
XRT_BODY_JOINT_COUNT_FB == 70
XRT_FULL_BODY_JOINT_COUNT_META == 84
XRT_FACIAL_EXPRESSION_EYE_COUNT_HTC == 14
XRT_FACIAL_EXPRESSION_LIP_COUNT_HTC == 37

Sessions == 1..MaxSessions
Trackers == 1..MaxTrackers

(***************************************************************************)
(* Handles as the application holds them.  A handle is a pointer value:    *)
(* it stays in the application's hands after the object is destroyed.      *)
(* StructPtr is a pointer to a caller structure, which is no handle.       *)
(***************************************************************************)
XR_NULL_HANDLE == <<"null", 0>>
StructPtr == <<"struct", 0>>
SessionHandle(i) == <<"session", i>>
TrackerHandle(j) == <<"tracker", j>>
SessionHandles == {SessionHandle(i) : i \in Sessions}
TrackerHandles == {TrackerHandle(j) : j \in Trackers}

(***************************************************************************)
(* Result codes.                                                           *)
(***************************************************************************)
XR_SUCCESS == "XR_SUCCESS"
XR_ERROR_HANDLE_INVALID == "XR_ERROR_HANDLE_INVALID"
XR_ERROR_SESSION_LOST == "XR_ERROR_SESSION_LOST"
XR_ERROR_SESSION_NOT_RUNNING == "XR_ERROR_SESSION_NOT_RUNNING"
XR_ERROR_SESSION_RUNNING == "XR_ERROR_SESSION_RUNNING"
XR_ERROR_VALIDATION_FAILURE == "XR_ERROR_VALIDATION_FAILURE"
XR_ERROR_TIME_INVALID == "XR_ERROR_TIME_INVALID"
XR_ERROR_FEATURE_UNSUPPORTED == "XR_ERROR_FEATURE_UNSUPPORTED"
XR_ERROR_FUNCTION_UNSUPPORTED == "XR_ERROR_FUNCTION_UNSUPPORTED"
XR_ERROR_RUNTIME_FAILURE == "XR_ERROR_RUNTIME_FAILURE"
XR_ERROR_SIZE_INSUFFICIENT == "XR_ERROR_SIZE_INSUFFICIENT"
XR_ERROR_OUT_OF_MEMORY == "XR_ERROR_OUT_OF_MEMORY"
XR_ERROR_VIEW_CONFIGURATION_TYPE_UNSUPPORTED == "XR_ERROR_VIEW_CONFIGURATION_TYPE_UNSUPPORTED"
XR_ERROR_DISPLAY_REFRESH_RATE_UNSUPPORTED_FB == "XR_ERROR_DISPLAY_REFRESH_RATE_UNSUPPORTED_FB"

(***************************************************************************)
(* Extensions an instance can enable.                                      *)
(***************************************************************************)
Extensions ==
  {"EXT_hand_tracking", "HTC_facial_tracking", "FB_body_tracking",
   "META_body_tracking_full_body", "META_body_tracking_fidelity",
   "KHR_visibility_mask", "EXT_performance_settings",
   "KHR_android_thread_settings", "EXT_thermal_query",
   "MNDX_force_feedback_curl", "FB_display_refresh_rate"}
\* The extensions a tracker is created under.
TrackerExtensions ==
  {"EXT_hand_tracking", "HTC_facial_tracking", "FB_body_tracking",
   "META_body_tracking_full_body"}

(***************************************************************************)
(* Devices (struct xrt_device): the capability flags this file reads, as   *)
(* they are when a tracker is created.  NoDev is the NULL device pointer.  *)
(***************************************************************************)
NoDev == "NULL"
Devices == {"dev_full", "dev_bare", "dev_noinput", "dev_nofid"}
XDev(d) ==
  CASE d = "dev_full" ->
         [hand_tracking_supported |-> TRUE, inputs |-> {"LEFT", "RIGHT"},
          body_tracking_supported |-> TRUE, face_tracking_supported |-> TRUE,
          body_tracking_fidelity_supported |-> TRUE]
    [] d = "dev_noinput" ->
         [hand_tracking_supported |-> TRUE, inputs |-> {},
          body_tracking_supported |-> FALSE, face_tracking_supported |-> FALSE,
          body_tracking_fidelity_supported |-> FALSE]
    [] d = "dev_nofid" ->
         [hand_tracking_supported |-> FALSE, inputs |-> {},
          body_tracking_supported |-> TRUE, face_tracking_supported |-> FALSE,
          body_tracking_fidelity_supported |-> FALSE]
    [] OTHER ->
         [hand_tracking_supported |-> FALSE, inputs |-> {},
          body_tracking_supported |-> FALSE, face_tracking_supported |-> FALSE,
          body_tracking_fidelity_supported |-> FALSE]

(***************************************************************************)
(* State.                                                                  *)
(*   sessions  inst->sessions, the head of the instance's singly linked    *)
(*             session list (0 is NULL)                                    *)
(*   sess      the session objects: handle state, next (the list link),    *)
(*             has_begun, has_lost, the handle's child set and the number  *)
(*             of times the destroy callback ran                           *)
(*   trk       the tracker objects (hand, body, face)                      *)
(*   ext       inst->extensions, the enabled extensions                    *)
(*   xsysc     sess->sys->xsysc: null when headless, else the supported    *)
(*             refresh rates (info.refresh_rates_hz), in 1/1000 Hz         *)
(*   rate      the compositor's current refresh rate, in 1/1000 Hz         *)
(*   last      the last call: entrypoint, handle, result, output written,  *)
(*             collaborator calls made                                     *)
(*   chain     a relation chain (struct xrt_relation_chain): the relations *)
(*             pushed, and the relation it was resolved to                 *)
(*   thread    for each application thread inside xrCreateSession or       *)
(*             xrDestroySession: where it is (pc), its local link and its  *)
(*             local sess                                                  *)
(*   overlap   a thread has entered one of the two calls while another was *)
(*             inside one                                                  *)
(***************************************************************************)
VARIABLES sessions, sess, trk, ext, xsysc, rate, last, chain, thread, overlap

vars == <<sessions, sess, trk, ext, xsysc, rate, last, chain, thread, overlap>>

Threads == {"t1", "t2"}
NoThread == [pc |-> "idle", link |-> 0, s |-> 0]
NoThreads == [t \in Threads |-> NoThread]

NoSession ==
  [state |-> "none", next |-> 0, has_begun |-> FALSE, has_lost |-> FALSE,
   children |-> {}, cb |-> 0, predicted |-> 0]
NoTracker ==
  [state |-> "none", kind |-> "none", sess |-> 0, xdev |-> NoDev,
   variant |-> "none", cb |-> 0]

World == [sessions |-> sessions, sess |-> sess, trk |-> trk, rate |-> rate]

(***************************************************************************)
(* What a call wrote to the caller's output structure: isActive, the       *)
(* number of joint entries whose location flags and whose poses were       *)
(* written, the number of array elements written, a count output, and the  *)
(* names of the other fields written.                                      *)
(***************************************************************************)
NoOut ==
  [isActive |-> "unset", nflags |-> 0, nposes |-> 0, nelems |-> 0,
   count |-> -1, time |-> -1, fields |-> {}]

Result(ret, w, out, calls) == [ret |-> ret, w |-> w, out |-> out, calls |-> calls]
Err(w, ret) == Result(ret, w, NoOut, <<>>)

(***************************************************************************)
(* A chain of checks in program order: the first one that fails decides    *)
(* the return value.                                                       *)
(***************************************************************************)
Failed(chk) == \E i \in 1..Len(chk) : chk[i] # XR_SUCCESS
FirstFailure(chk) ==
  chk[CHOOSE i \in 1..Len(chk) :
        chk[i] # XR_SUCCESS /\ \A k \in 1..(i - 1) : chk[k] = XR_SUCCESS]

(***************************************************************************)
(* Validation layer (oxr_api_verify.h, not part of this file).             *)
(***************************************************************************)
IsSession(h) == h[1] = "session" /\ h[2] \in Sessions
IsTracker(h) == h[1] = "tracker" /\ h[2] \in Trackers
SessRec(w, h) == IF IsSession(h) THEN w.sess[h[2]] ELSE NoSession
TrkRec(w, h) == IF IsTracker(h) THEN w.trk[h[2]] ELSE NoTracker
\* The session a tracker belongs to (tracker->sess), as a handle.
SessOf(w, h) == SessionHandle(TrkRec(w, h).sess)

\* OXR_VERIFY_SESSION_AND_INIT_LOG: non-null, a session, alive.
OXR_VERIFY_SESSION(w, h) ==
  IF SessRec(w, h).state = "live" THEN XR_SUCCESS ELSE XR_ERROR_HANDLE_INVALID

\* OXR_VERIFY_{HAND,BODY,FACE}_TRACKER_AND_INIT_LOG.
OXR_VERIFY_TRACKER(w, h, kind) ==
  IF TrkRec(w, h).state = "live" /\ TrkRec(w, h).kind = kind
  THEN XR_SUCCESS ELSE XR_ERROR_HANDLE_INVALID

OXR_VERIFY_SESSION_NOT_LOST(w, s) ==
  IF SessRec(w, s).has_lost THEN XR_ERROR_SESSION_LOST ELSE XR_SUCCESS

OXR_VERIFY_SESSION_RUNNING(w, s) ==
  IF ~SessRec(w, s).has_begun THEN XR_ERROR_SESSION_NOT_RUNNING ELSE XR_SUCCESS

\* A structured argument: NULL, a structure with a wrong type tag, or good.
ArgShapes == {"null", "badtype", "ok"}
OXR_VERIFY_ARG_TYPE_AND_NOT_NULL(arg) ==
  IF arg = "ok" THEN XR_SUCCESS ELSE XR_ERROR_VALIDATION_FAILURE
OXR_VERIFY_ARG_TYPE_CAN_BE_NULL(arg) ==
  IF arg = "badtype" THEN XR_ERROR_VALIDATION_FAILURE ELSE XR_SUCCESS
\* A pointer argument: NULL or not.
PtrShapes == {"null", "ok"}
OXR_VERIFY_ARG_NOT_NULL(arg) ==
  IF arg = "null" THEN XR_ERROR_VALIDATION_FAILURE ELSE XR_SUCCESS

OXR_VERIFY_EXTENSION(e) ==
  IF e \in ext THEN XR_SUCCESS ELSE XR_ERROR_FUNCTION_UNSUPPORTED

\* A view configuration type: the system's own, another one the runtime
\* knows but the system does not drive, or no value of the enumeration.
\* The macro checks that the value is one of the enumeration; whether the
\* system drives that configuration is checked separately (line 242, and
\* oxr_session_begin).
ViewConfigTypes == {"system", "other", "invalid"}
OXR_VERIFY_VIEW_CONFIG_TYPE(t) ==
  IF t = "invalid" THEN XR_ERROR_VALIDATION_FAILURE ELSE XR_SUCCESS

\* OXR_VERIFY_SPACE_NOT_NULL: the base space is a handle of its own.
SpaceShapes == {"null", "ok"}
OXR_VERIFY_SPACE_NOT_NULL(arg) ==
  IF arg = "null" THEN XR_ERROR_HANDLE_INVALID ELSE XR_SUCCESS

(***************************************************************************)
(* The arguments a call is tried with: those of S that differ from the     *)
(* valid call base in at most MaxFaults fields.                            *)
(***************************************************************************)
Deviations(a, base) == Cardinality({f \in DOMAIN a : a[f] # base[f]})
\* The set S, enumerated once.
Enumerated(S) == {x : x \in S}
Near(S, base) == Enumerated({a \in S : Deviations(a, base) <= MaxFaults})

(***************************************************************************)
(* Collaborators outside this file whose result this file only passes      *)
(* on.  Their result is an input of the call.                              *)
(***************************************************************************)
InnerRets == {XR_SUCCESS, XR_ERROR_RUNTIME_FAILURE}

(***************************************************************************)
(* The instance's session list: a link is &inst->sessions (0) or           *)
(* &sess[i]->next (i); Deref reads the pointer the link points at.         *)
(***************************************************************************)
Deref(w, link) == IF link = 0 THEN w.sessions ELSE w.sess[link].next
SetLink(w, link, v) ==
  IF link = 0 THEN [w EXCEPT !.sessions = v]
  ELSE [w EXCEPT !.sess[link].next = v]

\* while (*link) link = &(*link)->next;  (lines 61-64)
RECURSIVE WalkToEnd(_, _)
WalkToEnd(w, link) ==
  IF Deref(w, link) = 0 THEN link ELSE WalkToEnd(w, Deref(w, link))

\* while (*link != sess) link = &(*link)->next;  (lines 83-86).  When the
\* session is not in the list the walk reaches NULL and reads through it:
\* the result is -1.
RECURSIVE WalkTo(_, _, _)
WalkTo(w, link, s) ==
  IF Deref(w, link) = s THEN link
  ELSE IF Deref(w, link) = 0 THEN -1
  ELSE WalkTo(w, Deref(w, link), s)

\* The list as a sequence of sessions, head first.
RECURSIVE ListFrom(_, _, _)
ListFrom(w, s, n) ==
  IF s = 0 \/ n = 0 THEN <<>> ELSE <<s>> \o ListFrom(w, w.sess[s].next, n - 1)
SessionList(w) == ListFrom(w, w.sessions, MaxSessions + 1)
InList(w, s) == \E k \in 1..Len(SessionList(w)) : SessionList(w)[k] = s

(***************************************************************************)
(* Handle registry (oxr_handle.h, oxr_handle_base.c, not part of this      *)
(* file) and the destroy callbacks of this file.                           *)
(***************************************************************************)
\* free(hand_tracker): the callback ran once more and the object is gone.
oxr_hand_tracker_destroy_cb(w, j) ==
  [w EXCEPT !.trk[j] = [NoTracker EXCEPT !.state = "dead", !.kind = w.trk[j].kind,
                                         !.sess = w.trk[j].sess,
                                         !.cb = w.trk[j].cb + 1]]
oxr_facial_tracker_htc_destroy_cb(w, j) ==
  [w EXCEPT !.trk[j] = [NoTracker EXCEPT !.state = "dead", !.kind = w.trk[j].kind,
                                         !.sess = w.trk[j].sess,
                                         !.cb = w.trk[j].cb + 1]]
oxr_body_tracker_fb_destroy_cb(w, j) ==
  [w EXCEPT !.trk[j] = [NoTracker EXCEPT !.state = "dead", !.kind = w.trk[j].kind,
                                         !.sess = w.trk[j].sess,
                                         !.cb = w.trk[j].cb + 1]]
\* oxr_session_destroy, the session's callback (oxr_session.c).
oxr_session_destroy_cb(w, i) ==
  [w EXCEPT !.sess[i] = [NoSession EXCEPT !.state = "dead", !.cb = w.sess[i].cb + 1]]

\* handle->destroy(log, handle) of a tracker, by the callback it was
\* allocated with.
TrackerDestroyCb(w, j) ==
  CASE w.trk[j].kind = "hand" -> oxr_hand_tracker_destroy_cb(w, j)
    [] w.trk[j].kind = "face" -> oxr_facial_tracker_htc_destroy_cb(w, j)
    [] OTHER -> oxr_body_tracker_fb_destroy_cb(w, j)

\* Destroying one tracker handle: the callback, then out of the parent's
\* child set.
DestroyTrackerHandle(w, j) ==
  LET p == w.trk[j].sess
      w1 == TrackerDestroyCb(w, j)
  IN IF p \in Sessions
     THEN [w1 EXCEPT !.sess[p].children = w1.sess[p].children \ {j}]
     ELSE w1

\* The children of a session, destroyed one after the other.
RECURSIVE DestroyChildren(_, _)
DestroyChildren(r, i) ==
  IF r.w.sess[i].children = {} THEN r
  ELSE LET j == CHOOSE c \in r.w.sess[i].children :
                  \A d \in r.w.sess[i].children : c <= d
       IN DestroyChildren([w |-> DestroyTrackerHandle(r.w, j),
                           calls |-> Append(r.calls, <<"destroy_cb", TrackerHandle(j)>>)],
                          i)

\* oxr_handle_destroy: children first, then the handle itself.
oxr_handle_destroy(w, h) ==
  IF IsSession(h)
  THEN LET r == DestroyChildren([w |-> w, calls |-> <<>>], h[2])
       IN Result(XR_SUCCESS, oxr_session_destroy_cb(r.w, h[2]), NoOut,
                 Append(r.calls, <<"destroy_cb", h>>))
  ELSE Result(XR_SUCCESS, DestroyTrackerHandle(w, h[2]), NoOut,
              <<<<"destroy_cb", h>>>>)

(***************************************************************************)
(* Session functions of oxr_session.c that this file calls.                *)
(***************************************************************************)
oxr_session_begin(w, i, a) ==
  IF a.viewType # "system"
  THEN Err(w, XR_ERROR_VIEW_CONFIGURATION_TYPE_UNSUPPORTED)
  ELSE IF a.inner # XR_SUCCESS THEN Err(w, a.inner)
  ELSE Result(XR_SUCCESS, [w EXCEPT !.sess[i].has_begun = TRUE], NoOut,
              <<<<"oxr_session_begin", SessionHandle(i)>>>>)

oxr_session_end(w, i, a) ==
  IF a.inner # XR_SUCCESS THEN Err(w, a.inner)
  ELSE Result(XR_SUCCESS, [w EXCEPT !.sess[i].has_begun = FALSE], NoOut,
              <<<<"oxr_session_end", SessionHandle(i)>>>>)

\* oxr_session_frame_wait (oxr_session.c): blocks until the timing source
\* has the next frame and returns its predicted display time, which is the
\* last one this session was given or later (a.advance frame periods
\* later).
WaitFrame_FromZero(w, i, a) ==
  IF a.inner # XR_SUCCESS
  THEN Result(a.inner, w, NoOut, <<<<"oxr_session_frame_wait", SessionHandle(i)>>>>)
  ELSE Result(XR_SUCCESS, [w EXCEPT !.sess[i].predicted = a.advance],
              [NoOut EXCEPT !.fields = {"frameState"}, !.time = a.advance],
              <<<<"oxr_session_frame_wait", SessionHandle(i)>>>>)

oxr_session_frame_wait(w, i, a) ==
  IF a.inner # XR_SUCCESS
  THEN Result(a.inner, w, NoOut, <<<<"oxr_session_frame_wait", SessionHandle(i)>>>>)
  ELSE LET t == w.sess[i].predicted + a.advance
       IN Result(XR_SUCCESS, [w EXCEPT !.sess[i].predicted = t],
                 [NoOut EXCEPT !.fields = {"frameState"}, !.time = t],
                 <<<<"oxr_session_frame_wait", SessionHandle(i)>>>>)

\* The other frame functions and the exit request change no state this
\* file reads.
oxr_session_frame_begin(w, i, a) == Result(a.inner, w, NoOut, <<<<"oxr_session_frame_begin", SessionHandle(i)>>>>)
\* oxr_session_frame_end taking the session out of the running state when
\* the frame is submitted.
FrameEnd_ClearsRunning(w, i, a) ==
  IF a.inner # XR_SUCCESS THEN Err(w, a.inner)
  ELSE Result(XR_SUCCESS, [w EXCEPT !.sess[i].has_begun = FALSE], NoOut,
              <<<<"oxr_session_frame_end", SessionHandle(i)>>>>)
oxr_session_frame_end(w, i, a) == Result(a.inner, w, NoOut, <<<<"oxr_session_frame_end", SessionHandle(i)>>>>)
oxr_session_request_exit(w, i, a) == Result(a.inner, w, NoOut, <<<<"oxr_session_request_exit", SessionHandle(i)>>>>)

(***************************************************************************)
(* Session entrypoints.                                                    *)
(***************************************************************************)
\* The session object oxr_session_create returns: a fresh one, or none
\* (0) when it fails.
FreshSession(w) ==
  IF \E i \in Sessions : w.sess[i].state = "none"
  THEN CHOOSE i \in Sessions :
         w.sess[i].state = "none" /\ \A k \in Sessions : w.sess[k].state = "none" => i <= k
  ELSE 0
CreateSessionArgs ==
  [instance : {"null", "ok"},
   verify : {XR_SUCCESS, XR_ERROR_VALIDATION_FAILURE},
   create : InnerRets]

\* xrCreateSession linking the new session in at the head of the list
\* instead of walking to its end.
CreateSession_LinkAtHead(w, a) ==
  IF a.instance # "ok" THEN Err(w, XR_ERROR_HANDLE_INVALID)
  ELSE IF a.verify # XR_SUCCESS THEN Err(w, a.verify)
  ELSE IF a.create # XR_SUCCESS \/ FreshSession(w) = 0 THEN Err(w, XR_ERROR_RUNTIME_FAILURE)
  ELSE LET new == FreshSession(w)
           w1 == [w EXCEPT !.sess[new] = [NoSession EXCEPT !.state = "live",
                                                          !.next = w.sessions]]
       IN Result(XR_SUCCESS, SetLink(w1, 0, new),
                 [NoOut EXCEPT !.fields = {"out_session"}],
                 <<<<"oxr_session_create", SessionHandle(new)>>>>)

oxr_xrCreateSession(w, a) ==
  IF a.instance # "ok" THEN Err(w, XR_ERROR_HANDLE_INVALID)
  ELSE IF a.verify # XR_SUCCESS THEN Err(w, a.verify)
  ELSE IF a.create # XR_SUCCESS \/ FreshSession(w) = 0 THEN Err(w, XR_ERROR_RUNTIME_FAILURE)
  ELSE LET new == FreshSession(w)
           w1 == [w EXCEPT !.sess[new] = [NoSession EXCEPT !.state = "live"]]
           link == WalkToEnd(w1, 0)
       IN Result(XR_SUCCESS, SetLink(w1, link, new),
                 [NoOut EXCEPT !.fields = {"out_session"}],
                 <<<<"oxr_session_create", SessionHandle(new)>>>>)

\* xrDestroySession that unlinks the session and runs its callback but
\* leaves the destruction of the children out.
DestroySession_NoCascade(w, session) ==
  LET chk == <<OXR_VERIFY_SESSION(w, session)>> IN
  IF Failed(chk) THEN Err(w, FirstFailure(chk))
  ELSE LET i == session[2]
           link == WalkTo(w, 0, i)
       IN IF link = -1 THEN Err(w, "CRASH")
          ELSE Result(XR_SUCCESS,
                      oxr_session_destroy_cb(SetLink(w, link, w.sess[i].next), i),
                      NoOut, <<<<"destroy_cb", session>>>>)

oxr_xrDestroySession(w, session) ==
  LET chk == <<OXR_VERIFY_SESSION(w, session)>> IN
  IF Failed(chk) THEN Err(w, FirstFailure(chk))
  ELSE LET i == session[2]
           link == WalkTo(w, 0, i)
       IN IF link = -1 THEN Err(w, "CRASH")
          ELSE oxr_handle_destroy(SetLink(w, link, w.sess[i].next), session)

BeginSessionArgs ==
  [beginInfo : ArgShapes, viewType : ViewConfigTypes, inner : InnerRets]

\* xrBeginSession asking whether the system drives the view configuration
\* before it tests has_begun.
BeginSession_SupportFirst(w, session, a) ==
  LET chk == <<OXR_VERIFY_SESSION(w, session),
               OXR_VERIFY_SESSION_NOT_LOST(w, session),
               OXR_VERIFY_ARG_TYPE_AND_NOT_NULL(a.beginInfo),
               OXR_VERIFY_VIEW_CONFIG_TYPE(a.viewType)>> IN
  IF Failed(chk) THEN Err(w, FirstFailure(chk))
  ELSE IF a.viewType # "system"
  THEN Err(w, XR_ERROR_VIEW_CONFIGURATION_TYPE_UNSUPPORTED)
  ELSE IF w.sess[session[2]].has_begun THEN Err(w, XR_ERROR_SESSION_RUNNING)
  ELSE oxr_session_begin(w, session[2], a)

\* xrBeginSession without the has_begun test of line 103.
BeginSession_NoRunningTest(w, session, a) ==
  LET chk == <<OXR_VERIFY_SESSION(w, session),
               OXR_VERIFY_SESSION_NOT_LOST(w, session),
               OXR_VERIFY_ARG_TYPE_AND_NOT_NULL(a.beginInfo),
               OXR_VERIFY_VIEW_CONFIG_TYPE(a.viewType)>> IN
  IF Failed(chk) THEN Err(w, FirstFailure(chk))
  ELSE oxr_session_begin(w, session[2], a)

oxr_xrBeginSession(w, session, a) ==
  LET chk == <<OXR_VERIFY_SESSION(w, session),
               OXR_VERIFY_SESSION_NOT_LOST(w, session),
               OXR_VERIFY_ARG_TYPE_AND_NOT_NULL(a.beginInfo),
               OXR_VERIFY_VIEW_CONFIG_TYPE(a.viewType)>> IN
  IF Failed(chk) THEN Err(w, FirstFailure(chk))
  ELSE IF w.sess[session[2]].has_begun THEN Err(w, XR_ERROR_SESSION_RUNNING)
  ELSE oxr_session_begin(w, session[2], a)

InnerArgs == [inner : InnerRets]

\* xrEndSession without the running check of line 120.
EndSession_NoRunningTest(w, session, a) ==
  LET chk == <<OXR_VERIFY_SESSION(w, session),
               OXR_VERIFY_SESSION_NOT_LOST(w, session)>> IN
  IF Failed(chk) THEN Err(w, FirstFailure(chk))
  ELSE oxr_session_end(w, session[2], a)

oxr_xrEndSession(w, session, a) ==
  LET chk == <<OXR_VERIFY_SESSION(w, session),
               OXR_VERIFY_SESSION_NOT_LOST(w, session),
               OXR_VERIFY_SESSION_RUNNING(w, session)>> IN
  IF Failed(chk) THEN Err(w, FirstFailure(chk))
  ELSE oxr_session_end(w, session[2], a)

\* advance: the frame periods the timing source has moved on by.
Advances == {0, 1}
WaitFrameArgs ==
  [frameWaitInfo : ArgShapes, frameState : ArgShapes, inner : InnerRets,
   advance : Advances]

\* xrWaitFrame with the argument checks moved before the running check.
WaitFrame_ArgsFirst(w, session, a) ==
  LET chk == <<OXR_VERIFY_SESSION(w, session),
               OXR_VERIFY_SESSION_NOT_LOST(w, session),
               OXR_VERIFY_ARG_TYPE_CAN_BE_NULL(a.frameWaitInfo),
               OXR_VERIFY_ARG_TYPE_AND_NOT_NULL(a.frameState),
               OXR_VERIFY_ARG_NOT_NULL(a.frameState),
               OXR_VERIFY_SESSION_RUNNING(w, session)>> IN
  IF Failed(chk) THEN Err(w, FirstFailure(chk))
  ELSE oxr_session_frame_wait(w, session[2], a)

oxr_xrWaitFrame(w, session, a) ==
  LET chk == <<OXR_VERIFY_SESSION(w, session),
               OXR_VERIFY_SESSION_NOT_LOST(w, session),
               OXR_VERIFY_SESSION_RUNNING(w, session),
               OXR_VERIFY_ARG_TYPE_CAN_BE_NULL(a.frameWaitInfo),
               OXR_VERIFY_ARG_TYPE_AND_NOT_NULL(a.frameState),
               OXR_VERIFY_ARG_NOT_NULL(a.frameState)>> IN
  IF Failed(chk) THEN Err(w, FirstFailure(chk))
  ELSE oxr_session_frame_wait(w, session[2], a)

BeginFrameArgs == [frameBeginInfo : ArgShapes, inner : InnerRets]

oxr_xrBeginFrame(w, session, a) ==
  LET chk == <<OXR_VERIFY_SESSION(w, session),
               OXR_VERIFY_SESSION_NOT_LOST(w, session),
               OXR_VERIFY_SESSION_RUNNING(w, session),
               OXR_VERIFY_ARG_TYPE_CAN_BE_NULL(a.frameBeginInfo)>> IN
  IF Failed(chk) THEN Err(w, FirstFailure(chk))
  ELSE oxr_session_frame_begin(w, session[2], a)

EndFrameArgs == [frameEndInfo : ArgShapes, inner : InnerRets]

oxr_xrEndFrame(w, session, a) ==
  LET chk == <<OXR_VERIFY_SESSION(w, session),
               OXR_VERIFY_SESSION_NOT_LOST(w, session),
               OXR_VERIFY_SESSION_RUNNING(w, session),
               OXR_VERIFY_ARG_TYPE_AND_NOT_NULL(a.frameEndInfo)>> IN
  IF Failed(chk) THEN Err(w, FirstFailure(chk))
  ELSE oxr_session_frame_end(w, session[2], a)

\* xrRequestExitSession tearing the session down itself, as
\* xrDestroySession does, once the exit request is made.
RequestExitSession_Destroys(w, session, a) ==
  LET chk == <<OXR_VERIFY_SESSION(w, session),
               OXR_VERIFY_SESSION_NOT_LOST(w, session),
               OXR_VERIFY_SESSION_RUNNING(w, session)>> IN
  IF Failed(chk) THEN Err(w, FirstFailure(chk))
  ELSE oxr_xrDestroySession(oxr_session_request_exit(w, session[2], a).w, session)

oxr_xrRequestExitSession(w, session, a) ==
  LET chk == <<OXR_VERIFY_SESSION(w, session),
               OXR_VERIFY_SESSION_NOT_LOST(w, session),
               OXR_VERIFY_SESSION_RUNNING(w, session)>> IN
  IF Failed(chk) THEN Err(w, FirstFailure(chk))
  ELSE oxr_session_request_exit(w, session[2], a)

(***************************************************************************)
(* Tracker creation.                                                       *)
(***************************************************************************)
\* The object OXR_ALLOCATE_HANDLE_OR_RETURN allocates: a fresh one, or none
\* (0) when the allocation fails.
FreshTracker(w) ==
  IF \E j \in Trackers : w.trk[j].state = "none"
  THEN CHOOSE j \in Trackers :
         w.trk[j].state = "none" /\ \A k \in Trackers : w.trk[k].state = "none" => j <= k
  ELSE 0
NewTracker(w, a) == IF a.alloc_ok THEN FreshTracker(w) ELSE 0

\* oxr_handle_allocate_and_init: a live handle of the given kind, a child
\* of session i, its other fields zeroed.
OXR_ALLOCATE_HANDLE(w, new, kind, i) ==
  [w EXCEPT !.trk[new] = [NoTracker EXCEPT !.state = "live", !.kind = kind],
            !.sess[i].children = w.sess[i].children \cup {new}]

\* a.xdev is the device GET_XDEV_BY_ROLE finds for the requested hand.
oxr_hand_tracker_create(w, i, a) ==
  IF ~a.sys_support THEN Err(w, XR_ERROR_FEATURE_UNSUPPORTED)
  ELSE IF NewTracker(w, a) = 0 THEN Err(w, XR_ERROR_OUT_OF_MEMORY)
  ELSE LET new == NewTracker(w, a)
           w1 == OXR_ALLOCATE_HANDLE(w, new, "hand", i)
           w2 == [w1 EXCEPT !.trk[new].sess = i,
                            !.trk[new].variant = a.handJointSet]
           xdev == IF a.hand \in {"LEFT", "RIGHT"} THEN a.xdev ELSE NoDev
           found == /\ xdev # NoDev
                    /\ XDev(xdev).hand_tracking_supported
                    /\ a.hand \in XDev(xdev).inputs
           w3 == IF found THEN [w2 EXCEPT !.trk[new].xdev = xdev] ELSE w2
       IN Result(XR_SUCCESS, w3, [NoOut EXCEPT !.fields = {"out_hand_tracker"}],
                 <<>>)

HandJointSets == {"DEFAULT", "OTHER"}
CreateHandTrackerArgs ==
  [createInfo : ArgShapes, handTracker : PtrShapes,
   hand : {"LEFT", "RIGHT", "invalid"}, handJointSet : HandJointSets,
   sys_support : BOOLEAN, xdev : Devices \cup {NoDev},
   alloc_ok : BOOLEAN]

oxr_xrCreateHandTrackerEXT(w, session, a) ==
  LET chk == <<OXR_VERIFY_SESSION(w, session),
               OXR_VERIFY_SESSION_NOT_LOST(w, session),
               OXR_VERIFY_ARG_TYPE_AND_NOT_NULL(a.createInfo),
               OXR_VERIFY_ARG_NOT_NULL(a.handTracker),
               OXR_VERIFY_EXTENSION("EXT_hand_tracking")>> IN
  IF Failed(chk) THEN Err(w, FirstFailure(chk))
  ELSE IF a.hand # "LEFT" /\ a.hand # "RIGHT"
  THEN Err(w, XR_ERROR_VALIDATION_FAILURE)
  ELSE LET r == oxr_hand_tracker_create(w, session[2], a)
       IN IF r.ret # XR_SUCCESS THEN r
          ELSE [r EXCEPT !.out = [NoOut EXCEPT !.fields = {"handTracker"}]]

\* xrDestroyHandTrackerEXT that runs the callback itself instead of going
\* through oxr_handle_destroy.
DestroyHandTracker_CallbackOnly(w, handTracker) ==
  LET chk == <<OXR_VERIFY_TRACKER(w, handTracker, "hand")>> IN
  IF Failed(chk) THEN Err(w, FirstFailure(chk))
  ELSE Result(XR_SUCCESS, oxr_hand_tracker_destroy_cb(w, handTracker[2]), NoOut,
              <<<<"destroy_cb", handTracker>>>>)

oxr_xrDestroyHandTrackerEXT(w, handTracker) ==
  LET chk == <<OXR_VERIFY_TRACKER(w, handTracker, "hand")>> IN
  IF Failed(chk) THEN Err(w, FirstFailure(chk))
  ELSE oxr_handle_destroy(w, handTracker)

\* oxr_to_xrt_facial_tracking_type_htc is a cast: every value passes.
FacialTrackingTypes == {"EYE", "LIP", "OTHER"}
oxr_to_xrt_facial_tracking_type_htc(ft_type) == ft_type

oxr_facial_tracking_type_htc_to_input_name(ft_type) ==
  IF ft_type = "LIP" THEN "XRT_INPUT_HTC_LIP_FACE_TRACKING"
  ELSE "XRT_INPUT_HTC_EYE_FACE_TRACKING"

\* oxr_facial_tracker_htc_create allocating the handle before it looks for
\* the device of the face role.
FacialTrackerCreate_AllocateFirst(w, i, a) ==
  LET facial_tracking_type == oxr_to_xrt_facial_tracking_type_htc(a.facialTrackingType)
      xdev == a.xdev
  IN IF facial_tracking_type = "EYE" /\ ~a.supports_eye
     THEN Err(w, XR_ERROR_FEATURE_UNSUPPORTED)
     ELSE IF facial_tracking_type = "LIP" /\ ~a.supports_lip
     THEN Err(w, XR_ERROR_FEATURE_UNSUPPORTED)
     ELSE IF NewTracker(w, a) = 0 THEN Err(w, XR_ERROR_OUT_OF_MEMORY)
     ELSE LET new == NewTracker(w, a)
              w1 == OXR_ALLOCATE_HANDLE(w, new, "face", i)
              w2 == [w1 EXCEPT !.trk[new].sess = i,
                               !.trk[new].xdev = xdev,
                               !.trk[new].variant = facial_tracking_type]
          IN IF xdev = NoDev THEN Err(w1, XR_ERROR_FEATURE_UNSUPPORTED)
             ELSE IF ~XDev(xdev).face_tracking_supported
             THEN Err(w1, XR_ERROR_FEATURE_UNSUPPORTED)
             ELSE Result(XR_SUCCESS, w2,
                         [NoOut EXCEPT !.fields = {"out_face_tracker_htc"}], <<>>)

\* a.xdev is the device of the face role.
oxr_facial_tracker_htc_create(w, i, a) ==
  LET facial_tracking_type == oxr_to_xrt_facial_tracking_type_htc(a.facialTrackingType)
      xdev == a.xdev
  IN IF facial_tracking_type = "EYE" /\ ~a.supports_eye
     THEN Err(w, XR_ERROR_FEATURE_UNSUPPORTED)
     ELSE IF facial_tracking_type = "LIP" /\ ~a.supports_lip
     THEN Err(w, XR_ERROR_FEATURE_UNSUPPORTED)
     ELSE IF xdev = NoDev THEN Err(w, XR_ERROR_FEATURE_UNSUPPORTED)
     ELSE IF ~XDev(xdev).face_tracking_supported
     THEN Err(w, XR_ERROR_FEATURE_UNSUPPORTED)
     ELSE IF NewTracker(w, a) = 0 THEN Err(w, XR_ERROR_OUT_OF_MEMORY)
     ELSE LET new == NewTracker(w, a)
              w1 == OXR_ALLOCATE_HANDLE(w, new, "face", i)
              w2 == [w1 EXCEPT !.trk[new].sess = i,
                               !.trk[new].xdev = xdev,
                               !.trk[new].variant = facial_tracking_type]
          IN Result(XR_SUCCESS, w2,
                    [NoOut EXCEPT !.fields = {"out_face_tracker_htc"}], <<>>)

CreateFacialTrackerArgs ==
  [createInfo : ArgShapes, facialTrackingType : FacialTrackingTypes,
   supports_eye : BOOLEAN, supports_lip : BOOLEAN,
   xdev : Devices \cup {NoDev}, alloc_ok : BOOLEAN]

oxr_xrCreateFacialTrackerHTC(w, session, a) ==
  LET chk == <<OXR_VERIFY_SESSION(w, session),
               OXR_VERIFY_SESSION_NOT_LOST(w, session),
               OXR_VERIFY_ARG_TYPE_AND_NOT_NULL(a.createInfo),
               OXR_VERIFY_EXTENSION("HTC_facial_tracking")>> IN
  IF Failed(chk) THEN Err(w, FirstFailure(chk))
  ELSE LET r == oxr_facial_tracker_htc_create(w, session[2], a)
       IN IF r.ret # XR_SUCCESS THEN r
          ELSE [r EXCEPT !.out = [NoOut EXCEPT !.fields = {"facialTracker"}]]

oxr_xrDestroyFacialTrackerHTC(w, facialTracker) ==
  LET chk == <<OXR_VERIFY_TRACKER(w, facialTracker, "face")>> IN
  IF Failed(chk) THEN Err(w, FirstFailure(chk))
  ELSE oxr_handle_destroy(w, facialTracker)

BodyJointSets == {"DEFAULT_FB", "FULL_BODY_META", "OTHER"}
oxr_to_xrt_body_joint_set_type_fb(joint_set_type) ==
  IF joint_set_type = "FULL_BODY_META" THEN "FULL_BODY_META"
  ELSE IF joint_set_type = "DEFAULT_FB" THEN "DEFAULT_FB"
  ELSE "UNKNOWN"

\* a.xdev is the device of the body role.
CreateBodyTrackerArgs ==
  [createInfo : ArgShapes, bodyJointSet : BodyJointSets,
   sys_support : BOOLEAN, sys_full_support : BOOLEAN,
   xdev : Devices \cup {NoDev}, alloc_ok : BOOLEAN]

\* xrCreateBodyTrackerFB without the device test of lines 915-918.
CreateBodyTracker_NoDeviceTest(w, session, a) ==
  LET chk == <<OXR_VERIFY_SESSION(w, session),
               OXR_VERIFY_SESSION_NOT_LOST(w, session),
               OXR_VERIFY_ARG_TYPE_AND_NOT_NULL(a.createInfo),
               OXR_VERIFY_EXTENSION("FB_body_tracking"),
               IF a.bodyJointSet = "FULL_BODY_META"
               THEN OXR_VERIFY_EXTENSION("META_body_tracking_full_body")
               ELSE XR_SUCCESS>>
      joint_set_type == oxr_to_xrt_body_joint_set_type_fb(a.bodyJointSet)
      i == session[2]
  IN IF Failed(chk) THEN Err(w, FirstFailure(chk))
     ELSE IF ~a.sys_support THEN Err(w, XR_ERROR_FEATURE_UNSUPPORTED)
     ELSE IF joint_set_type = "UNKNOWN" THEN Err(w, XR_ERROR_FEATURE_UNSUPPORTED)
     ELSE IF joint_set_type = "FULL_BODY_META" /\ ~a.sys_full_support
     THEN Err(w, XR_ERROR_FEATURE_UNSUPPORTED)
     ELSE IF NewTracker(w, a) = 0 THEN Err(w, XR_ERROR_OUT_OF_MEMORY)
     ELSE LET new == NewTracker(w, a)
              w1 == OXR_ALLOCATE_HANDLE(w, new, "body", i)
              w2 == [w1 EXCEPT !.trk[new].sess = i,
                               !.trk[new].xdev = a.xdev,
                               !.trk[new].variant = joint_set_type]
          IN Result(XR_SUCCESS, w2, [NoOut EXCEPT !.fields = {"bodyTracker"}], <<>>)

oxr_xrCreateBodyTrackerFB(w, session, a) ==
  LET chk == <<OXR_VERIFY_SESSION(w, session),
               OXR_VERIFY_SESSION_NOT_LOST(w, session),
               OXR_VERIFY_ARG_TYPE_AND_NOT_NULL(a.createInfo),
               OXR_VERIFY_EXTENSION("FB_body_tracking"),
               IF a.bodyJointSet = "FULL_BODY_META"
               THEN OXR_VERIFY_EXTENSION("META_body_tracking_full_body")
               ELSE XR_SUCCESS>>
      joint_set_type == oxr_to_xrt_body_joint_set_type_fb(a.bodyJointSet)
      xdev == a.xdev
      i == session[2]
  IN IF Failed(chk) THEN Err(w, FirstFailure(chk))
     ELSE IF ~a.sys_support THEN Err(w, XR_ERROR_FEATURE_UNSUPPORTED)
     ELSE IF joint_set_type = "UNKNOWN" THEN Err(w, XR_ERROR_FEATURE_UNSUPPORTED)
     ELSE IF joint_set_type = "FULL_BODY_META" /\ ~a.sys_full_support
     THEN Err(w, XR_ERROR_FEATURE_UNSUPPORTED)
     ELSE IF xdev = NoDev \/ ~XDev(xdev).body_tracking_supported
     THEN Err(w, XR_ERROR_FEATURE_UNSUPPORTED)
     ELSE IF NewTracker(w, a) = 0 THEN Err(w, XR_ERROR_OUT_OF_MEMORY)
     ELSE LET new == NewTracker(w, a)
              w1 == OXR_ALLOCATE_HANDLE(w, new, "body", i)
              w2 == [w1 EXCEPT !.trk[new].sess = i,
                               !.trk[new].xdev = xdev,
                               !.trk[new].variant = joint_set_type]
          IN Result(XR_SUCCESS, w2, [NoOut EXCEPT !.fields = {"bodyTracker"}], <<>>)

\* xrDestroyBodyTrackerFB that does not verify the handle's state.
DestroyBodyTracker_NoVerify(w, bodyTracker) ==
  IF ~IsTracker(bodyTracker) \/ TrkRec(w, bodyTracker).kind # "body"
  THEN Err(w, XR_ERROR_HANDLE_INVALID)
  ELSE oxr_handle_destroy(w, bodyTracker)

oxr_xrDestroyBodyTrackerFB(w, bodyTracker) ==
  LET chk == <<OXR_VERIFY_TRACKER(w, bodyTracker, "body")>> IN
  IF Failed(chk) THEN Err(w, FirstFailure(chk))
  ELSE oxr_handle_destroy(w, bodyTracker)

(***************************************************************************)
(* Tracker queries.                                                        *)
(***************************************************************************)
Times == {-1, 0, 1}

\* oxr_session_hand_joints (oxr_session.c): fills the joint set of the
\* tracker; a tracker without a device reports inactive.
oxr_session_hand_joints(w, j, a) ==
  IF a.inner # XR_SUCCESS
  THEN Result(a.inner, w, NoOut, <<<<"oxr_session_hand_joints", TrackerHandle(j)>>>>)
  ELSE Result(XR_SUCCESS, w,
              [NoOut EXCEPT !.isActive = IF a.is_active /\ w.trk[j].xdev # NoDev
                                         THEN "XR_TRUE" ELSE "XR_FALSE",
                            !.nflags = XR_HAND_JOINT_COUNT_EXT,
                            !.nposes = XR_HAND_JOINT_COUNT_EXT],
              <<<<"oxr_session_hand_joints", TrackerHandle(j)>>>>)

\* vel: an XrHandJointVelocitiesEXT is chained to locations; velJointCount
\* is its jointCount.
LocateHandJointsAll ==
  [locateInfo : ArgShapes, locations : ArgShapes, jointLocations : PtrShapes,
   baseSpace : SpaceShapes, time : Times,
   jointCount : {XR_HAND_JOINT_COUNT_EXT - 1, XR_HAND_JOINT_COUNT_EXT,
                 XR_HAND_JOINT_COUNT_EXT + 1},
   vel : BOOLEAN,
   velJointCount : {0, XR_HAND_JOINT_COUNT_EXT - 1, XR_HAND_JOINT_COUNT_EXT},
   inner : InnerRets, is_active : BOOLEAN]
LocateHandJointsValid ==
  [locateInfo |-> "ok", locations |-> "ok", jointLocations |-> "ok",
   baseSpace |-> "ok", time |-> 1, jointCount |-> XR_HAND_JOINT_COUNT_EXT,
   vel |-> FALSE, velJointCount |-> XR_HAND_JOINT_COUNT_EXT, inner |-> XR_SUCCESS, is_active |-> TRUE]

\* xrLocateHandJointsEXT without the time test of lines 514-517.
LocateHandJoints_NoTimeTest(w, handTracker, a) ==
  LET chk == <<OXR_VERIFY_TRACKER(w, handTracker, "hand"),
               OXR_VERIFY_SESSION_NOT_LOST(w, SessOf(w, handTracker)),
               OXR_VERIFY_ARG_TYPE_AND_NOT_NULL(a.locateInfo),
               OXR_VERIFY_ARG_TYPE_AND_NOT_NULL(a.locations),
               OXR_VERIFY_ARG_NOT_NULL(a.jointLocations),
               OXR_VERIFY_SPACE_NOT_NULL(a.baseSpace)>>
      hand_tracker == TrkRec(w, handTracker)
  IN IF Failed(chk) THEN Err(w, FirstFailure(chk))
     ELSE IF hand_tracker.variant = "DEFAULT" /\ a.jointCount # XR_HAND_JOINT_COUNT_EXT
     THEN Err(w, XR_ERROR_VALIDATION_FAILURE)
     ELSE IF a.vel /\ a.velJointCount <= 0
     THEN Err(w, XR_ERROR_VALIDATION_FAILURE)
     ELSE IF a.vel /\ hand_tracker.variant = "DEFAULT"
             /\ a.velJointCount # XR_HAND_JOINT_COUNT_EXT
     THEN Err(w, XR_ERROR_VALIDATION_FAILURE)
     ELSE oxr_session_hand_joints(w, handTracker[2], a)

oxr_xrLocateHandJointsEXT(w, handTracker, a) ==
  LET chk == <<OXR_VERIFY_TRACKER(w, handTracker, "hand"),
               OXR_VERIFY_SESSION_NOT_LOST(w, SessOf(w, handTracker)),
               OXR_VERIFY_ARG_TYPE_AND_NOT_NULL(a.locateInfo),
               OXR_VERIFY_ARG_TYPE_AND_NOT_NULL(a.locations),
               OXR_VERIFY_ARG_NOT_NULL(a.jointLocations),
               OXR_VERIFY_SPACE_NOT_NULL(a.baseSpace)>>
      hand_tracker == TrkRec(w, handTracker)
  IN IF Failed(chk) THEN Err(w, FirstFailure(chk))
     ELSE IF a.time <= 0 THEN Err(w, XR_ERROR_TIME_INVALID)
     ELSE IF hand_tracker.variant = "DEFAULT" /\ a.jointCount # XR_HAND_JOINT_COUNT_EXT
     THEN Err(w, XR_ERROR_VALIDATION_FAILURE)
     ELSE IF a.vel /\ a.velJointCount <= 0
     THEN Err(w, XR_ERROR_VALIDATION_FAILURE)
     ELSE IF a.vel /\ hand_tracker.variant = "DEFAULT"
             /\ a.velJointCount # XR_HAND_JOINT_COUNT_EXT
     THEN Err(w, XR_ERROR_VALIDATION_FAILURE)
     ELSE oxr_session_hand_joints(w, handTracker[2], a)

\* oxr_session_apply_force_feedback (oxr_session.c).
oxr_session_apply_force_feedback(w, j, a) ==
  Result(a.inner, w, NoOut, <<<<"oxr_session_apply_force_feedback", TrackerHandle(j)>>>>)

ApplyForceFeedbackArgs == [locations : ArgShapes, inner : InnerRets]

oxr_xrApplyForceFeedbackCurlMNDX(w, handTracker, a) ==
  LET chk == <<OXR_VERIFY_TRACKER(w, handTracker, "hand"),
               OXR_VERIFY_ARG_TYPE_AND_NOT_NULL(a.locations)>>
  IN IF Failed(chk) THEN Err(w, FirstFailure(chk))
     ELSE oxr_session_apply_force_feedback(w, handTracker[2], a)

\* A pointer to a caller structure, read as a handle.
PtrAsHandle(arg) == IF arg = "null" THEN XR_NULL_HANDLE ELSE StructPtr

GetFacialExpressionsAll ==
  [facialExpressions : ArgShapes, expressionWeightings : PtrShapes,
   expressionCount : {XRT_FACIAL_EXPRESSION_EYE_COUNT_HTC - 1,
                      XRT_FACIAL_EXPRESSION_EYE_COUNT_HTC,
                      XRT_FACIAL_EXPRESSION_LIP_COUNT_HTC - 1,
                      XRT_FACIAL_EXPRESSION_LIP_COUNT_HTC},
   dev_ok : BOOLEAN, is_active : BOOLEAN]
GetFacialExpressionsValid ==
  [facialExpressions |-> "ok", expressionWeightings |-> "ok",
   expressionCount |-> XRT_FACIAL_EXPRESSION_LIP_COUNT_HTC, dev_ok |-> TRUE,
   is_active |-> TRUE]

\* Lines 823-849: the device is asked for the expression set and what it
\* returns is not looked at (line 837).  dev_ok: the device call succeeds;
\* is_active: the is_active the expression set holds after the call (the
\* set is zeroed before it, so a device that fails without writing leaves
\* it false).
GetFacialExpressions_FromDevice(w, facial_tracker_htc, a) ==
  LET is_eye_tracking == facial_tracker_htc.variant = "EYE"
      expression_count == IF is_eye_tracking THEN XRT_FACIAL_EXPRESSION_EYE_COUNT_HTC
                          ELSE XRT_FACIAL_EXPRESSION_LIP_COUNT_HTC
      ft_input_name == oxr_facial_tracking_type_htc_to_input_name(facial_tracker_htc.variant)
      calls == <<<<"xrt_device_get_face_tracking", ft_input_name>>>>
  IN IF ~a.is_active
     THEN Result(XR_SUCCESS, w, [NoOut EXCEPT !.isActive = "XR_FALSE"], calls)
     ELSE Result(XR_SUCCESS, w,
                 [NoOut EXCEPT !.isActive = "XR_TRUE", !.fields = {"sampleTime"},
                               !.nelems = expression_count],
                 calls)

\* Lines 802-849 for the handle the verification macro is given.
GetFacialExpressions_OfHandle(w, handle, a) ==
  LET facial_tracker_htc == TrkRec(w, handle)
      chk == <<OXR_VERIFY_TRACKER(w, handle, "face"),
               OXR_VERIFY_SESSION_NOT_LOST(w, SessOf(w, handle)),
               OXR_VERIFY_ARG_NOT_NULL(IF facial_tracker_htc.xdev = NoDev
                                       THEN "null" ELSE "ok"),
               OXR_VERIFY_ARG_TYPE_AND_NOT_NULL(a.facialExpressions),
               OXR_VERIFY_ARG_NOT_NULL(a.expressionWeightings),
               IF facial_tracker_htc.variant = "EYE"
                  /\ a.expressionCount < XRT_FACIAL_EXPRESSION_EYE_COUNT_HTC
               THEN XR_ERROR_SIZE_INSUFFICIENT ELSE XR_SUCCESS,
               IF facial_tracker_htc.variant = "LIP"
                  /\ a.expressionCount < XRT_FACIAL_EXPRESSION_LIP_COUNT_HTC
               THEN XR_ERROR_SIZE_INSUFFICIENT ELSE XR_SUCCESS>>
  IN IF Failed(chk) THEN Err(w, FirstFailure(chk))
     ELSE GetFacialExpressions_FromDevice(w, facial_tracker_htc, a)

\* The handle that is verified and used is facialExpressions (line 802),
\* not facialTracker.
oxr_xrGetFacialExpressionsHTC(w, facialTracker, a) ==
  GetFacialExpressions_OfHandle(w, PtrAsHandle(a.facialExpressions), a)

BodyJointCounts ==
  {XRT_BODY_JOINT_COUNT_FB - 1, XRT_BODY_JOINT_COUNT_FB,
   XRT_FULL_BODY_JOINT_COUNT_META - 1, XRT_FULL_BODY_JOINT_COUNT_META}

\* supported: what xdev->body_tracking_supported holds when the query reads
\* it (the device is the driver's object, and its flags are read anew by
\* every query); dev_ok: xrt_device_get_body_skeleton succeeds.
GetBodySkeletonArgs ==
  [skeleton : ArgShapes, jointCount : BodyJointCounts, supported : BOOLEAN,
   dev_ok : BOOLEAN]

\* xrGetBodySkeletonFB without the jointCount test of line 966.
GetBodySkeleton_NoCountTest(w, bodyTracker, a) ==
  LET body_tracker_fb == TrkRec(w, bodyTracker)
      chk == <<OXR_VERIFY_TRACKER(w, bodyTracker, "body"),
               OXR_VERIFY_SESSION_NOT_LOST(w, SessOf(w, bodyTracker)),
               OXR_VERIFY_ARG_NOT_NULL(IF body_tracker_fb.xdev = NoDev
                                       THEN "null" ELSE "ok"),
               OXR_VERIFY_ARG_TYPE_AND_NOT_NULL(a.skeleton)>>
      body_joint_count == IF body_tracker_fb.variant = "FULL_BODY_META"
                          THEN XRT_FULL_BODY_JOINT_COUNT_META
                          ELSE XRT_BODY_JOINT_COUNT_FB
      calls == <<<<"xrt_device_get_body_skeleton", "XRT_INPUT_FB_BODY_TRACKING">>>>
  IN IF Failed(chk) THEN Err(w, FirstFailure(chk))
     ELSE IF ~a.dev_ok THEN Result(XR_ERROR_RUNTIME_FAILURE, w, NoOut, calls)
     ELSE Result(XR_SUCCESS, w,
                 [NoOut EXCEPT !.nposes = body_joint_count,
                               !.nelems = body_joint_count],
                 calls)

oxr_xrGetBodySkeletonFB(w, bodyTracker, a) ==
  LET body_tracker_fb == TrkRec(w, bodyTracker)
      chk == <<OXR_VERIFY_TRACKER(w, bodyTracker, "body"),
               OXR_VERIFY_SESSION_NOT_LOST(w, SessOf(w, bodyTracker)),
               OXR_VERIFY_ARG_NOT_NULL(IF body_tracker_fb.xdev = NoDev
                                       THEN "null" ELSE "ok"),
               OXR_VERIFY_ARG_TYPE_AND_NOT_NULL(a.skeleton)>>
      is_meta_full_body == body_tracker_fb.variant = "FULL_BODY_META"
      body_joint_count == IF is_meta_full_body THEN XRT_FULL_BODY_JOINT_COUNT_META
                          ELSE XRT_BODY_JOINT_COUNT_FB
      input_name == IF is_meta_full_body THEN "XRT_INPUT_META_FULL_BODY_TRACKING"
                    ELSE "XRT_INPUT_FB_BODY_TRACKING"
      calls == <<<<"xrt_device_get_body_skeleton", input_name>>>>
  IN IF Failed(chk) THEN Err(w, FirstFailure(chk))
     ELSE IF body_tracker_fb.xdev = NoDev \/ ~a.supported
     THEN Err(w, XR_ERROR_FUNCTION_UNSUPPORTED)
     ELSE IF a.jointCount < body_joint_count
     THEN Err(w, XR_ERROR_VALIDATION_FAILURE)
     ELSE IF ~a.dev_ok
     THEN Result(XR_ERROR_RUNTIME_FAILURE, w, NoOut, calls)
     ELSE Result(XR_SUCCESS, w,
                 [NoOut EXCEPT !.nposes = body_joint_count,
                               !.nelems = body_joint_count],
                 calls)

\* supported: what xdev->body_tracking_supported holds when the query reads
\* it; dev_ok: xrt_device_get_body_joints succeeds; base_pose: the result of
\* oxr_get_base_body_pose; is_active: the joint set's is_active;
\* base_flags: whether T_base_body.relation_flags is nonzero; fidelity:
\* whether an XrBodyTrackingFidelityStatusMETA is chained to locations.
LocateBodyJointsAll ==
  [locateInfo : ArgShapes, locations : ArgShapes, jointLocations : PtrShapes,
   baseSpace : SpaceShapes, jointCount : BodyJointCounts, time : Times,
   supported : BOOLEAN,
   dev_ok : BOOLEAN, base_pose : InnerRets, is_active : BOOLEAN,
   base_flags : BOOLEAN, fidelity : BOOLEAN]
LocateBodyJointsValid ==
  [locateInfo |-> "ok", locations |-> "ok", jointLocations |-> "ok",
   baseSpace |-> "ok", jointCount |-> XRT_FULL_BODY_JOINT_COUNT_META,
   time |-> 1, supported |-> TRUE, dev_ok |-> TRUE, base_pose |-> XR_SUCCESS,
   is_active |-> TRUE,
   base_flags |-> TRUE, fidelity |-> FALSE]

\* xrLocateBodyJointsFB without the jointCount test of lines 1019-1021.
LocateBodyJoints_NoCountTest(w, bodyTracker, a) ==
  LET body_tracker_fb == TrkRec(w, bodyTracker)
      chk == <<OXR_VERIFY_TRACKER(w, bodyTracker, "body"),
               OXR_VERIFY_ARG_TYPE_AND_NOT_NULL(a.locateInfo),
               OXR_VERIFY_ARG_TYPE_AND_NOT_NULL(a.locations),
               OXR_VERIFY_SESSION_NOT_LOST(w, SessOf(w, bodyTracker)),
               OXR_VERIFY_ARG_NOT_NULL(IF body_tracker_fb.xdev = NoDev
                                       THEN "null" ELSE "ok"),
               OXR_VERIFY_ARG_NOT_NULL(a.jointLocations),
               OXR_VERIFY_SPACE_NOT_NULL(a.baseSpace)>>
      is_meta_full_body == body_tracker_fb.variant = "FULL_BODY_META"
      body_joint_count == IF is_meta_full_body THEN XRT_FULL_BODY_JOINT_COUNT_META
                          ELSE XRT_BODY_JOINT_COUNT_FB
      input_name == IF is_meta_full_body THEN "XRT_INPUT_META_FULL_BODY_TRACKING"
                    ELSE "XRT_INPUT_FB_BODY_TRACKING"
      dev == <<<<"xrt_device_get_body_joints", input_name>>>>
      calls == Append(dev, <<"oxr_get_base_body_pose", bodyTracker>>)
      located == [NoOut EXCEPT !.isActive = "XR_TRUE",
                               !.fields = {"time", "confidence", "skeletonChangedCount"},
                               !.nflags = body_joint_count,
                               !.nposes = body_joint_count]
  IN IF Failed(chk) THEN Err(w, FirstFailure(chk))
     ELSE IF body_tracker_fb.xdev = NoDev \/ ~a.supported
     THEN Err(w, XR_ERROR_FUNCTION_UNSUPPORTED)
     ELSE IF a.time <= 0 THEN Err(w, XR_ERROR_TIME_INVALID)
     ELSE IF ~a.dev_ok THEN Result(XR_ERROR_RUNTIME_FAILURE, w, NoOut, dev)
     ELSE IF a.base_pose # XR_SUCCESS
     THEN Result(a.base_pose, w, [NoOut EXCEPT !.isActive = "XR_FALSE"], calls)
     ELSE IF ~a.is_active \/ ~a.base_flags
     THEN Result(XR_SUCCESS, w,
                 [NoOut EXCEPT !.isActive = "XR_FALSE",
                               !.nflags = XRT_BODY_JOINT_COUNT_FB],
                 calls)
     ELSE IF a.fidelity /\ OXR_VERIFY_EXTENSION("META_body_tracking_fidelity") # XR_SUCCESS
     THEN Result(XR_ERROR_FUNCTION_UNSUPPORTED, w, located, calls)
     ELSE IF a.fidelity /\ ~XDev(body_tracker_fb.xdev).body_tracking_fidelity_supported
     THEN Result(XR_ERROR_FEATURE_UNSUPPORTED, w, located, calls)
     ELSE IF a.fidelity
     THEN Result(XR_SUCCESS, w,
                 [located EXCEPT !.fields = located.fields \cup {"fidelity"}], calls)
     ELSE Result(XR_SUCCESS, w, located, calls)

oxr_xrLocateBodyJointsFB(w, bodyTracker, a) ==
  LET body_tracker_fb == TrkRec(w, bodyTracker)
      chk == <<OXR_VERIFY_TRACKER(w, bodyTracker, "body"),
               OXR_VERIFY_ARG_TYPE_AND_NOT_NULL(a.locateInfo),
               OXR_VERIFY_ARG_TYPE_AND_NOT_NULL(a.locations),
               OXR_VERIFY_SESSION_NOT_LOST(w, SessOf(w, bodyTracker)),
               OXR_VERIFY_ARG_NOT_NULL(IF body_tracker_fb.xdev = NoDev
                                       THEN "null" ELSE "ok"),
               OXR_VERIFY_ARG_NOT_NULL(a.jointLocations),
               OXR_VERIFY_SPACE_NOT_NULL(a.baseSpace)>>
      is_meta_full_body == body_tracker_fb.variant = "FULL_BODY_META"
      body_joint_count == IF is_meta_full_body THEN XRT_FULL_BODY_JOINT_COUNT_META
                          ELSE XRT_BODY_JOINT_COUNT_FB
      input_name == IF is_meta_full_body THEN "XRT_INPUT_META_FULL_BODY_TRACKING"
                    ELSE "XRT_INPUT_FB_BODY_TRACKING"
      dev == <<<<"xrt_device_get_body_joints", input_name>>>>
      calls == Append(dev, <<"oxr_get_base_body_pose", bodyTracker>>)
      located == [NoOut EXCEPT !.isActive = "XR_TRUE",
                               !.fields = {"time", "confidence", "skeletonChangedCount"},
                               !.nflags = body_joint_count,
                               !.nposes = body_joint_count]
  IN IF Failed(chk) THEN Err(w, FirstFailure(chk))
     ELSE IF body_tracker_fb.xdev = NoDev \/ ~a.supported
     THEN Err(w, XR_ERROR_FUNCTION_UNSUPPORTED)
     ELSE IF a.jointCount < body_joint_count
     THEN Err(w, XR_ERROR_VALIDATION_FAILURE)
     ELSE IF a.time <= 0 THEN Err(w, XR_ERROR_TIME_INVALID)
     ELSE IF ~a.dev_ok THEN Result(XR_ERROR_RUNTIME_FAILURE, w, NoOut, dev)
     ELSE IF a.base_pose # XR_SUCCESS
     THEN Result(a.base_pose, w, [NoOut EXCEPT !.isActive = "XR_FALSE"], calls)
     ELSE IF ~a.is_active \/ ~a.base_flags
     THEN Result(XR_SUCCESS, w,
                 [NoOut EXCEPT !.isActive = "XR_FALSE",
                               !.nflags = XRT_BODY_JOINT_COUNT_FB],
                 calls)
     ELSE IF a.fidelity /\ OXR_VERIFY_EXTENSION("META_body_tracking_fidelity") # XR_SUCCESS
     THEN Result(XR_ERROR_FUNCTION_UNSUPPORTED, w, located, calls)
     ELSE IF a.fidelity /\ ~XDev(body_tracker_fb.xdev).body_tracking_fidelity_supported
     THEN Result(XR_ERROR_FEATURE_UNSUPPORTED, w, located, calls)
     ELSE IF a.fidelity
     THEN Result(XR_SUCCESS, w,
                 [located EXCEPT !.fields = located.fields \cup {"fidelity"}], calls)
     ELSE Result(XR_SUCCESS, w, located, calls)

(***************************************************************************)
(* View location.                                                          *)
(***************************************************************************)
\* oxr_session_locate_views (oxr_session.c).
oxr_session_locate_views(w, i, a) ==
  Result(a.inner, w,
         IF a.inner = XR_SUCCESS THEN [NoOut EXCEPT !.fields = {"viewState"}]
         ELSE NoOut,
         <<<<"oxr_session_locate_views", SessionHandle(i)>>>>)

\* viewsTyped: every element of views carries XR_TYPE_VIEW.
LocateViewsAll ==
  [viewLocateInfo : ArgShapes, space : SpaceShapes, viewState : ArgShapes,
   viewType : ViewConfigTypes, viewCapacityInput : {0, 2},
   viewCountOutput : PtrShapes, views : PtrShapes, viewsTyped : BOOLEAN,
   displayTime : Times, inner : InnerRets]
LocateViewsValid ==
  [viewLocateInfo |-> "ok", space |-> "ok", viewState |-> "ok",
   viewType |-> "system", viewCapacityInput |-> 2, viewCountOutput |-> "ok",
   views |-> "ok", viewsTyped |-> TRUE, displayTime |-> 1,
   inner |-> XR_SUCCESS]

oxr_xrLocateViews(w, session, a) ==
  LET chk == <<OXR_VERIFY_SESSION(w, session),
               OXR_VERIFY_SESSION_NOT_LOST(w, session),
               OXR_VERIFY_ARG_TYPE_AND_NOT_NULL(a.viewLocateInfo),
               OXR_VERIFY_SPACE_NOT_NULL(a.space),
               OXR_VERIFY_ARG_TYPE_AND_NOT_NULL(a.viewState),
               OXR_VERIFY_VIEW_CONFIG_TYPE(a.viewType),
               IF a.viewCapacityInput = 0
               THEN OXR_VERIFY_ARG_NOT_NULL(a.viewCountOutput)
               ELSE OXR_VERIFY_ARG_NOT_NULL(a.views),
               IF a.viewCapacityInput > 0 /\ ~a.viewsTyped
               THEN XR_ERROR_VALIDATION_FAILURE ELSE XR_SUCCESS>>
  IN IF Failed(chk) THEN Err(w, FirstFailure(chk))
     ELSE IF a.displayTime <= 0 THEN Err(w, XR_ERROR_TIME_INVALID)
     ELSE IF a.viewType # "system"
     THEN Err(w, XR_ERROR_VIEW_CONFIGURATION_TYPE_UNSUPPORTED)
     ELSE oxr_session_locate_views(w, session[2], a)

(***************************************************************************)
(* XR_FB_display_refresh_rate.  A rate is a whole number of 1/1000 Hz.     *)
(***************************************************************************)
\* (int)(rate * 100.0f): the rate truncated to two decimal places.
Trunc2(r) == r \div 10

Headless == xsysc.null
refresh_rate_count == Len(xsysc.rates)

Min(x, y) == IF x < y THEN x ELSE y

\* OXR_TWO_CALL_HELPER (oxr_two_call.h): the two-call idiom.
OXR_TWO_CALL_HELPER(w, cnt_input, cnt_output, count) ==
  IF cnt_output = "null" THEN Err(w, XR_ERROR_VALIDATION_FAILURE)
  ELSE IF cnt_input = 0
  THEN Result(XR_SUCCESS, w, [NoOut EXCEPT !.count = count], <<>>)
  ELSE Result(XR_SUCCESS, w,
              [NoOut EXCEPT !.count = Min(cnt_input, count),
                            !.nelems = Min(cnt_input, count)],
              <<>>)

\* What storing the count through a null pointer (line 594) can do.
NullStore == {"CRASH", XR_SUCCESS}

EnumerateRatesArgs == [capacity : 0..3, countOutput : PtrShapes, ub : NullStore]

\* xrEnumerateDisplayRefreshRatesFB handing a capacity of 0 to the helper of
\* line 598 whatever the caller passed.
EnumerateRates_CountOnly(w, session, a) ==
  LET chk == <<OXR_VERIFY_SESSION(w, session),
               OXR_VERIFY_SESSION_NOT_LOST(w, session)>>
  IN IF Failed(chk) THEN Err(w, FirstFailure(chk))
     ELSE IF Headless
     THEN IF a.countOutput = "null" THEN Result(a.ub, w, NoOut, <<>>)
          ELSE Result(XR_SUCCESS, w, [NoOut EXCEPT !.count = 0], <<>>)
     ELSE OXR_TWO_CALL_HELPER(w, 0, a.countOutput, refresh_rate_count)

oxr_xrEnumerateDisplayRefreshRatesFB(w, session, a) ==
  LET chk == <<OXR_VERIFY_SESSION(w, session),
               OXR_VERIFY_SESSION_NOT_LOST(w, session)>>
  IN IF Failed(chk) THEN Err(w, FirstFailure(chk))
     ELSE IF Headless
     THEN IF a.countOutput = "null" THEN Result(a.ub, w, NoOut, <<>>)
          ELSE Result(XR_SUCCESS, w, [NoOut EXCEPT !.count = 0], <<>>)
     ELSE OXR_TWO_CALL_HELPER(w, a.capacity, a.countOutput, refresh_rate_count)

\* oxr_session_get_display_refresh_rate (oxr_session.c): reads the
\* compositor's current rate.
oxr_session_get_display_refresh_rate(w, i, a) ==
  Result(a.inner, w,
         IF a.inner = XR_SUCCESS THEN [NoOut EXCEPT !.count = w.rate] ELSE NoOut,
         <<<<"xrt_comp_get_display_refresh_rate", SessionHandle(i)>>>>)

oxr_xrGetDisplayRefreshRateFB(w, session, a) ==
  LET chk == <<OXR_VERIFY_SESSION(w, session),
               OXR_VERIFY_SESSION_NOT_LOST(w, session)>>
  IN IF Failed(chk) THEN Err(w, FirstFailure(chk))
     ELSE IF Headless
     THEN Result(XR_SUCCESS, w, [NoOut EXCEPT !.count = 0], <<>>)
     ELSE IF refresh_rate_count < 1 THEN Err(w, XR_ERROR_RUNTIME_FAILURE)
     ELSE oxr_session_get_display_refresh_rate(w, session[2], a)

\* oxr_session_request_display_refresh_rate (oxr_session.c): forwards the
\* rate to the compositor.
oxr_session_request_display_refresh_rate(w, i, a) ==
  Result(a.inner,
         IF a.inner = XR_SUCCESS THEN [w EXCEPT !.rate = a.displayRefreshRate]
         ELSE w,
         NoOut,
         <<<<"xrt_comp_request_display_refresh_rate", SessionHandle(i)>>>>)

\* What reading refresh_rate_count through a null xsysc (line 641) can do.
NullDeref == {"CRASH", XR_ERROR_DISPLAY_REFRESH_RATE_UNSUPPORTED_FB}

RequestedRates == {0, 59940, 59999, 60000, 60005, 72000}
RequestRateArgs ==
  [displayRefreshRate : RequestedRates, inner : InnerRets, ub : NullDeref]

\* xrRequestDisplayRefreshRateFB without the early return of line 632.
RequestRate_NoZeroTest(w, session, a) ==
  LET chk == <<OXR_VERIFY_SESSION(w, session),
               OXR_VERIFY_SESSION_NOT_LOST(w, session)>>
      found == \E k \in 1..Len(xsysc.rates) :
                  Trunc2(a.displayRefreshRate) = Trunc2(xsysc.rates[k])
  IN IF Failed(chk) THEN Err(w, FirstFailure(chk))
     ELSE IF Headless THEN Result(a.ub, w, NoOut, <<>>)
     ELSE IF ~found THEN Err(w, XR_ERROR_DISPLAY_REFRESH_RATE_UNSUPPORTED_FB)
     ELSE oxr_session_request_display_refresh_rate(w, session[2], a)

\* xrRequestDisplayRefreshRateFB comparing the rates of line 642 as they are,
\* without the truncation.
RequestRate_NoTruncation(w, session, a) ==
  LET chk == <<OXR_VERIFY_SESSION(w, session),
               OXR_VERIFY_SESSION_NOT_LOST(w, session)>>
      found == \E k \in 1..Len(xsysc.rates) :
                  a.displayRefreshRate = xsysc.rates[k]
  IN IF Failed(chk) THEN Err(w, FirstFailure(chk))
     ELSE IF a.displayRefreshRate = 0 THEN Result(XR_SUCCESS, w, NoOut, <<>>)
     ELSE IF Headless THEN Result(a.ub, w, NoOut, <<>>)
     ELSE IF ~found THEN Err(w, XR_ERROR_DISPLAY_REFRESH_RATE_UNSUPPORTED_FB)
     ELSE oxr_session_request_display_refresh_rate(w, session[2], a)

oxr_xrRequestDisplayRefreshRateFB(w, session, a) ==
  LET chk == <<OXR_VERIFY_SESSION(w, session),
               OXR_VERIFY_SESSION_NOT_LOST(w, session)>>
      found == \E k \in 1..Len(xsysc.rates) :
                  Trunc2(a.displayRefreshRate) = Trunc2(xsysc.rates[k])
  IN IF Failed(chk) THEN Err(w, FirstFailure(chk))
     ELSE IF a.displayRefreshRate = 0 THEN Result(XR_SUCCESS, w, NoOut, <<>>)
     ELSE IF Headless THEN Result(a.ub, w, NoOut, <<>>)
     ELSE IF ~found THEN Err(w, XR_ERROR_DISPLAY_REFRESH_RATE_UNSUPPORTED_FB)
     ELSE oxr_session_request_display_refresh_rate(w, session[2], a)

(***************************************************************************)
(* XR_KHR_visibility_mask.                                                 *)
(***************************************************************************)
\* OXR_VERIFY_VIEW_INDEX (oxr_api_verify.h): the index of one of the views.
ViewIndices == {0, 1, 2}
OXR_VERIFY_VIEW_INDEX(i) ==
  IF i >= 2 THEN XR_ERROR_VALIDATION_FAILURE ELSE XR_SUCCESS

VisibilityMaskTypes == {"HIDDEN_TRIANGLE_MESH", "LINE_LOOP", "invalid"}

\* oxr_session_get_visibility_mask (oxr_session.c): fills the mask.
oxr_session_get_visibility_mask(w, i, a) ==
  Result(a.inner, w,
         [NoOut EXCEPT !.fields =
            IF a.inner = XR_SUCCESS
            THEN {"vertexCountOutput", "indexCountOutput", "vertices", "indices"}
            ELSE {"vertexCountOutput", "indexCountOutput"}],
         <<<<"oxr_session_get_visibility_mask", SessionHandle(i)>>>>)

GetVisibilityMaskAll ==
  [viewType : ViewConfigTypes, viewIndex : ViewIndices,
   visibilityMaskType : VisibilityMaskTypes, visibilityMask : ArgShapes,
   vertexCapacityInput : {0, 3}, vertices : PtrShapes,
   indexCapacityInput : {0, 3}, indices : PtrShapes,
   inner : InnerRets, ub : NullStore]
GetVisibilityMaskValid ==
  [viewType |-> "system", viewIndex |-> 0,
   visibilityMaskType |-> "HIDDEN_TRIANGLE_MESH", visibilityMask |-> "ok",
   vertexCapacityInput |-> 3, vertices |-> "ok",
   indexCapacityInput |-> 3, indices |-> "ok",
   inner |-> XR_SUCCESS, ub |-> XR_SUCCESS]

\* Lines 283-284 store the two count outputs through visibilityMask before
\* line 302 checks that pointer: through NULL the store is undefined (a.ub),
\* through a structure of the wrong type it is made.
oxr_xrGetVisibilityMaskKHR(w, session, a) ==
  LET chk == <<OXR_VERIFY_SESSION(w, session),
               OXR_VERIFY_SESSION_NOT_LOST(w, session),
               OXR_VERIFY_EXTENSION("KHR_visibility_mask")>>
      zeroed == IF a.visibilityMask = "null" THEN NoOut
                ELSE [NoOut EXCEPT !.fields = {"vertexCountOutput", "indexCountOutput"}]
      rest == <<OXR_VERIFY_VIEW_CONFIG_TYPE(a.viewType),
                IF a.viewType # "system"
                THEN XR_ERROR_VIEW_CONFIGURATION_TYPE_UNSUPPORTED ELSE XR_SUCCESS,
                OXR_VERIFY_VIEW_INDEX(a.viewIndex),
                IF a.visibilityMaskType = "invalid"
                THEN XR_ERROR_VALIDATION_FAILURE ELSE XR_SUCCESS,
                OXR_VERIFY_ARG_TYPE_AND_NOT_NULL(a.visibilityMask),
                IF a.vertexCapacityInput # 0
                THEN OXR_VERIFY_ARG_NOT_NULL(a.vertices) ELSE XR_SUCCESS,
                IF a.indexCapacityInput # 0
                THEN OXR_VERIFY_ARG_NOT_NULL(a.indices) ELSE XR_SUCCESS>>
  IN IF Failed(chk) THEN Err(w, FirstFailure(chk))
     ELSE IF a.visibilityMask = "null" /\ a.ub = "CRASH"
     THEN Result("CRASH", w, NoOut, <<>>)
     ELSE IF Failed(rest) THEN Result(FirstFailure(rest), w, zeroed, <<>>)
     ELSE oxr_session_get_visibility_mask(w, session[2], a)

(***************************************************************************)
(* XR_EXT_performance_settings and XR_EXT_thermal_query.                   *)
(***************************************************************************)
PerfDomains == {"CPU", "GPU", "invalid"}
PerfLevels == {"POWER_SAVINGS", "BOOST", "invalid"}

\* oxr_session_set_perf_level (oxr_session.c).
oxr_session_set_perf_level(w, i, a) ==
  Result(a.inner, w, NoOut, <<<<"oxr_session_set_perf_level", SessionHandle(i)>>>>)

PerfSettingsArgs == [domain : PerfDomains, level : PerfLevels, inner : InnerRets]

oxr_xrPerfSettingsSetPerformanceLevelEXT(w, session, a) ==
  LET chk == <<OXR_VERIFY_SESSION(w, session),
               OXR_VERIFY_SESSION_NOT_LOST(w, session),
               OXR_VERIFY_EXTENSION("EXT_performance_settings"),
               IF a.domain = "invalid" THEN XR_ERROR_VALIDATION_FAILURE ELSE XR_SUCCESS,
               IF a.level = "invalid" THEN XR_ERROR_VALIDATION_FAILURE ELSE XR_SUCCESS>>
  IN IF Failed(chk) THEN Err(w, FirstFailure(chk))
     ELSE oxr_session_set_perf_level(w, session[2], a)

ThermalArgs == [domain : PerfDomains]

oxr_xrThermalGetTemperatureTrendEXT(w, session, a) ==
  LET chk == <<OXR_VERIFY_SESSION(w, session),
               OXR_VERIFY_SESSION_NOT_LOST(w, session)>>
  IN IF Failed(chk) THEN Err(w, FirstFailure(chk))
     ELSE Err(w, XR_ERROR_HANDLE_INVALID)

(***************************************************************************)
(* XR_KHR_android_thread_settings.                                         *)
(***************************************************************************)
AndroidThreadTypes == {"APPLICATION_MAIN", "RENDERER_MAIN", "invalid"}

\* oxr_session_android_thread_settings (oxr_session.c).
oxr_session_android_thread_settings(w, i, a) ==
  Result(a.inner, w, NoOut,
         <<<<"oxr_session_android_thread_settings", SessionHandle(i)>>>>)

AndroidThreadArgs == [threadType : AndroidThreadTypes, inner : InnerRets]

oxr_xrSetAndroidApplicationThreadKHR(w, session, a) ==
  LET chk == <<OXR_VERIFY_SESSION(w, session),
               OXR_VERIFY_SESSION_NOT_LOST(w, session),
               IF a.threadType = "invalid" THEN XR_ERROR_VALIDATION_FAILURE ELSE XR_SUCCESS,
               OXR_VERIFY_EXTENSION("KHR_android_thread_settings")>>
  IN IF Failed(chk) THEN Err(w, FirstFailure(chk))
     ELSE oxr_session_android_thread_settings(w, session[2], a)

(***************************************************************************)
(* XR_META_body_tracking_fidelity.                                         *)
(***************************************************************************)
oxr_xrRequestBodyTrackingFidelityMETA(w, bodyTracker, a) ==
  LET body_tracker_fb == TrkRec(w, bodyTracker)
      chk == <<OXR_VERIFY_TRACKER(w, bodyTracker, "body"),
               OXR_VERIFY_SESSION_NOT_LOST(w, SessOf(w, bodyTracker)),
               OXR_VERIFY_ARG_NOT_NULL(IF body_tracker_fb.xdev = NoDev
                                       THEN "null" ELSE "ok"),
               OXR_VERIFY_EXTENSION("META_body_tracking_fidelity")>>
  IN IF Failed(chk) THEN Err(w, FirstFailure(chk))
     ELSE IF ~XDev(body_tracker_fb.xdev).body_tracking_fidelity_supported
     THEN Err(w, XR_ERROR_FEATURE_UNSUPPORTED)
     ELSE Result(a.inner, w, NoOut,
                 <<<<"xrt_device_set_body_tracking_fidelity_meta", bodyTracker>>>>)

(***************************************************************************)
(* Spatial relations (math/m_space.h, not part of this file).  A relation  *)
(* is a pose and the set of its components that are valid.  A pose is a    *)
(* rigid motion of a small plane: a number of quarter turns and a          *)
(* position with coordinates modulo PoseGrid.                              *)
(***************************************************************************)
PoseGrid == 3
MaxChain == 3

Components ==
  {"orientation", "position", "orientation_velocity", "position_velocity"}
XRT_SPACE_RELATION_BITMASK_NONE == {}

IdentityPose == [rot |-> 0, pos |-> <<0, 0>>]
XRT_SPACE_RELATION_ZERO ==
  [pose |-> IdentityPose, relation_flags |-> XRT_SPACE_RELATION_BITMASK_NONE]

\* The position v turned by k quarter turns.
RECURSIVE Turn(_, _)
Turn(k, v) ==
  IF k = 0 THEN v
  ELSE Turn(k - 1, <<(PoseGrid - v[2]) % PoseGrid, v[1]>>)

\* The pose a expressed through the pose b: a, then b.
math_pose_transform(b, a) ==
  LET t == Turn(b.rot, a.pos)
  IN [rot |-> (a.rot + b.rot) % 4,
      pos |-> <<(b.pos[1] + t[1]) % PoseGrid, (b.pos[2] + t[2]) % PoseGrid>>]

\* A stage that lacks a component but is not wholly invalid passes on the
\* flags of the other stage.
apply_relation_Substitute(a, b) ==
  [pose |-> math_pose_transform(b.pose, a.pose),
   relation_flags |-> IF a.relation_flags = XRT_SPACE_RELATION_BITMASK_NONE
                      THEN b.relation_flags
                      ELSE a.relation_flags \cap b.relation_flags]

\* One stage of the resolution: relation a seen through relation b.  A
\* component is valid in the result iff it is valid in both.
apply_relation(a, b) ==
  [pose |-> math_pose_transform(b.pose, a.pose),
   relation_flags |-> a.relation_flags \cap b.relation_flags]

NoChain == [steps |-> <<>>, resolved |-> FALSE, result |-> XRT_SPACE_RELATION_ZERO]

\* m_relation_chain_push_relation: the relation becomes the last step.
m_relation_chain_push_relation(xrc, relation) ==
  [xrc EXCEPT !.steps = Append(@, relation)]

\* m_relation_chain_resolve: the steps applied in the order they were
\* pushed, the first one first.
RECURSIVE ResolveFrom(_, _, _)
ResolveFrom(steps, k, r) ==
  IF k > Len(steps) THEN r
  ELSE ResolveFrom(steps, k + 1, apply_relation(r, steps[k]))
m_relation_chain_resolve(steps) ==
  IF Len(steps) = 0 THEN XRT_SPACE_RELATION_ZERO
  ELSE ResolveFrom(steps, 2, steps[1])

\* xrt_to_xr_space_location_flags (oxr_conversions.h): the location flags
\* of a relation's flags; the velocities have no location flag.
xrt_to_xr_space_location_flags(relation_flags) ==
  relation_flags \cap {"orientation", "position"}

\* One round of the joint loop of xrLocateBodyJointsFB (lines 1070-1080):
\* the location written for the joint whose device-local relation is
\* src_joint, with the body located at T_base_body in the base space.
LocateBodyJoint(src_joint, T_base_body) ==
  LET xrc == m_relation_chain_push_relation(
               m_relation_chain_push_relation(NoChain, src_joint), T_base_body)
      result == m_relation_chain_resolve(xrc.steps)
  IN [locationFlags |-> xrt_to_xr_space_location_flags(src_joint.relation_flags),
      pose |-> result.pose]

(***************************************************************************)
(* The program as a state machine.  The application makes one call at a    *)
(* time: a call runs its entrypoint to the end and records what it         *)
(* returned in last; Return hands control back to the application.  A      *)
(* call that crashed the process never returns.                            *)
(***************************************************************************)
ExtConfigs == {Extensions, TrackerExtensions, {}}
XsyscConfigs ==
  {[null |-> TRUE, rates |-> <<>>],
   [null |-> FALSE, rates |-> <<60000, 90000>>]}

Idle ==
  [op |-> "none", h |-> XR_NULL_HANDLE, a |-> [none |-> TRUE],
   ret |-> XR_SUCCESS, out |-> NoOut, calls |-> <<>>]

\* The handles a call is tried with, and the calls themselves: a handle of
\* the wrong kind counts as one of the MaxFaults faults.
SessionArgHandles == SessionHandles \cup {XR_NULL_HANDLE, TrackerHandle(1)}
TrackerArgHandles == TrackerHandles \cup {XR_NULL_HANDLE, SessionHandle(1)}
Calls(H, Good, S, base) ==
  Enumerated({c \in H \X S :
     (IF c[1] \in Good THEN 0 ELSE 1) + Deviations(c[2], base) <= MaxFaults})
SessionCalls(S, base) == Calls(SessionArgHandles, SessionHandles, S, base)
TrackerCalls(S, base) == Calls(TrackerArgHandles, TrackerHandles, S, base)

CreateHandTrackerValid ==
  [createInfo |-> "ok", handTracker |-> "ok", hand |-> "LEFT",
   handJointSet |-> "DEFAULT", sys_support |-> TRUE, xdev |-> "dev_full",
   alloc_ok |-> TRUE]
CreateFacialTrackerValid ==
  [createInfo |-> "ok", facialTrackingType |-> "EYE", supports_eye |-> TRUE,
   supports_lip |-> TRUE, xdev |-> "dev_full", alloc_ok |-> TRUE]
CreateBodyTrackerValid ==
  [createInfo |-> "ok", bodyJointSet |-> "DEFAULT_FB", sys_support |-> TRUE,
   sys_full_support |-> TRUE, xdev |-> "dev_full", alloc_ok |-> TRUE]

LocateHandJointsArgs == Near(LocateHandJointsAll, LocateHandJointsValid)
GetFacialExpressionsArgs == Near(GetFacialExpressionsAll, GetFacialExpressionsValid)
LocateBodyJointsArgs == Near(LocateBodyJointsAll, LocateBodyJointsValid)

CreateHandTrackerCalls == SessionCalls(CreateHandTrackerArgs, CreateHandTrackerValid)
CreateFacialTrackerCalls == SessionCalls(CreateFacialTrackerArgs, CreateFacialTrackerValid)
CreateBodyTrackerCalls == SessionCalls(CreateBodyTrackerArgs, CreateBodyTrackerValid)
LocateViewsCalls == SessionCalls(LocateViewsAll, LocateViewsValid)
GetVisibilityMaskCalls == SessionCalls(GetVisibilityMaskAll, GetVisibilityMaskValid)
LocateHandJointsCalls == TrackerCalls(LocateHandJointsAll, LocateHandJointsValid)
GetFacialExpressionsCalls == TrackerCalls(GetFacialExpressionsAll, GetFacialExpressionsValid)
LocateBodyJointsCalls == TrackerCalls(LocateBodyJointsAll, LocateBodyJointsValid)

Init ==
  /\ sessions = 0
  /\ sess = [i \in Sessions |-> NoSession]
  /\ trk = [j \in Trackers |-> NoTracker]
  /\ ext \in ExtConfigs
  /\ xsysc \in XsyscConfigs
  /\ rate = IF xsysc.null THEN 0 ELSE xsysc.rates[1]
  /\ last = Idle
  /\ chain = NoChain
  /\ thread = NoThreads
  /\ overlap = FALSE

\* A call of entrypoint op on handle h with arguments a that produced r.
\* A call is made only while no other call is in progress (last.op = "none").
Call(op, h, a, r) ==
  /\ sessions' = r.w.sessions
  /\ sess' = r.w.sess
  /\ trk' = r.w.trk
  /\ rate' = r.w.rate
  /\ last' = [op |-> op, h |-> h, a |-> a, ret |-> r.ret, out |-> r.out,
              calls |-> r.calls]
  /\ UNCHANGED <<ext, xsysc, chain, thread, overlap>>

Return ==
  /\ last.op # "none"
  /\ last.ret # "CRASH"
  /\ last' = Idle
  /\ UNCHANGED <<sessions, sess, trk, ext, xsysc, rate, chain, thread, overlap>>

\* The runtime loses the session (the compositor or the device went away).
SessionLoss ==
  /\ last.op = "none"
  /\ \E i \in Sessions :
       /\ sess[i].state = "live"
       /\ ~sess[i].has_lost
       /\ sess' = [sess EXCEPT ![i].has_lost = TRUE]
  /\ UNCHANGED <<sessions, trk, ext, xsysc, rate, last, chain, thread, overlap>>

xrCreateSession ==
  /\ last.op = "none"
  /\ FreshSession(World) # 0
  /\ \E a \in CreateSessionArgs :
       Call("xrCreateSession", XR_NULL_HANDLE, a, oxr_xrCreateSession(World, a))
xrDestroySession ==
  /\ last.op = "none"
  /\ \E h \in SessionArgHandles :
       Call("xrDestroySession", h, Idle.a, oxr_xrDestroySession(World, h))
xrBeginSession ==
  /\ last.op = "none"
  /\ \E h \in SessionArgHandles, a \in BeginSessionArgs :
       Call("xrBeginSession", h, a, oxr_xrBeginSession(World, h, a))
xrEndSession ==
  /\ last.op = "none"
  /\ \E h \in SessionArgHandles, a \in InnerArgs :
       Call("xrEndSession", h, a, oxr_xrEndSession(World, h, a))
xrWaitFrame ==
  /\ last.op = "none"
  /\ \E h \in SessionArgHandles, a \in WaitFrameArgs :
       /\ SessRec(World, h).predicted + a.advance <= MaxTime
       /\ Call("xrWaitFrame", h, a, oxr_xrWaitFrame(World, h, a))
xrBeginFrame ==
  /\ last.op = "none"
  /\ \E h \in SessionArgHandles, a \in BeginFrameArgs :
       Call("xrBeginFrame", h, a, oxr_xrBeginFrame(World, h, a))
xrEndFrame ==
  /\ last.op = "none"
  /\ \E h \in SessionArgHandles, a \in EndFrameArgs :
       Call("xrEndFrame", h, a, oxr_xrEndFrame(World, h, a))
xrRequestExitSession ==
  /\ last.op = "none"
  /\ \E h \in SessionArgHandles, a \in InnerArgs :
       Call("xrRequestExitSession", h, a, oxr_xrRequestExitSession(World, h, a))
xrLocateViews ==
  /\ last.op = "none"
  /\ \E c \in LocateViewsCalls :
       Call("xrLocateViews", c[1], c[2], oxr_xrLocateViews(World, c[1], c[2]))
xrEnumerateDisplayRefreshRatesFB ==
  /\ last.op = "none"
  /\ \E h \in SessionArgHandles, a \in EnumerateRatesArgs :
       Call("xrEnumerateDisplayRefreshRatesFB", h, a,
            oxr_xrEnumerateDisplayRefreshRatesFB(World, h, a))
xrGetDisplayRefreshRateFB ==
  /\ last.op = "none"
  /\ \E h \in SessionArgHandles, a \in InnerArgs :
       Call("xrGetDisplayRefreshRateFB", h, a, oxr_xrGetDisplayRefreshRateFB(World, h, a))
xrRequestDisplayRefreshRateFB ==
  /\ last.op = "none"
  /\ \E h \in SessionArgHandles, a \in RequestRateArgs :
       Call("xrRequestDisplayRefreshRateFB", h, a,
            oxr_xrRequestDisplayRefreshRateFB(World, h, a))
xrCreateHandTrackerEXT ==
  /\ last.op = "none"
  /\ FreshTracker(World) # 0
  /\ \E c \in CreateHandTrackerCalls :
       Call("xrCreateHandTrackerEXT", c[1], c[2],
            oxr_xrCreateHandTrackerEXT(World, c[1], c[2]))
xrCreateFacialTrackerHTC ==
  /\ last.op = "none"
  /\ FreshTracker(World) # 0
  /\ \E c \in CreateFacialTrackerCalls :
       Call("xrCreateFacialTrackerHTC", c[1], c[2],
            oxr_xrCreateFacialTrackerHTC(World, c[1], c[2]))
xrCreateBodyTrackerFB ==
  /\ last.op = "none"
  /\ FreshTracker(World) # 0
  /\ \E c \in CreateBodyTrackerCalls :
       Call("xrCreateBodyTrackerFB", c[1], c[2],
            oxr_xrCreateBodyTrackerFB(World, c[1], c[2]))
xrDestroyHandTrackerEXT ==
  /\ last.op = "none"
  /\ \E h \in TrackerArgHandles :
       Call("xrDestroyHandTrackerEXT", h, Idle.a, oxr_xrDestroyHandTrackerEXT(World, h))
xrDestroyFacialTrackerHTC ==
  /\ last.op = "none"
  /\ \E h \in TrackerArgHandles :
       Call("xrDestroyFacialTrackerHTC", h, Idle.a, oxr_xrDestroyFacialTrackerHTC(World, h))
xrDestroyBodyTrackerFB ==
  /\ last.op = "none"
  /\ \E h \in TrackerArgHandles :
       Call("xrDestroyBodyTrackerFB", h, Idle.a, oxr_xrDestroyBodyTrackerFB(World, h))
xrLocateHandJointsEXT ==
  /\ last.op = "none"
  /\ \E c \in LocateHandJointsCalls :
       Call("xrLocateHandJointsEXT", c[1], c[2],
            oxr_xrLocateHandJointsEXT(World, c[1], c[2]))
xrApplyForceFeedbackCurlMNDX ==
  /\ last.op = "none"
  /\ \E h \in TrackerArgHandles, a \in ApplyForceFeedbackArgs :
       Call("xrApplyForceFeedbackCurlMNDX", h, a,
            oxr_xrApplyForceFeedbackCurlMNDX(World, h, a))
xrGetFacialExpressionsHTC ==
  /\ last.op = "none"
  /\ \E c \in GetFacialExpressionsCalls :
       Call("xrGetFacialExpressionsHTC", c[1], c[2],
            oxr_xrGetFacialExpressionsHTC(World, c[1], c[2]))
xrGetBodySkeletonFB ==
  /\ last.op = "none"
  /\ \E h \in TrackerArgHandles, a \in GetBodySkeletonArgs :
       Call("xrGetBodySkeletonFB", h, a, oxr_xrGetBodySkeletonFB(World, h, a))
xrLocateBodyJointsFB ==
  /\ last.op = "none"
  /\ \E c \in LocateBodyJointsCalls :
       Call("xrLocateBodyJointsFB", c[1], c[2],
            oxr_xrLocateBodyJointsFB(World, c[1], c[2]))

xrGetVisibilityMaskKHR ==
  /\ last.op = "none"
  /\ \E c \in GetVisibilityMaskCalls :
       Call("xrGetVisibilityMaskKHR", c[1], c[2],
            oxr_xrGetVisibilityMaskKHR(World, c[1], c[2]))
xrPerfSettingsSetPerformanceLevelEXT ==
  /\ last.op = "none"
  /\ \E h \in SessionArgHandles, a \in PerfSettingsArgs :
       Call("xrPerfSettingsSetPerformanceLevelEXT", h, a,
            oxr_xrPerfSettingsSetPerformanceLevelEXT(World, h, a))
xrThermalGetTemperatureTrendEXT ==
  /\ last.op = "none"
  /\ \E h \in SessionArgHandles, a \in ThermalArgs :
       Call("xrThermalGetTemperatureTrendEXT", h, a,
            oxr_xrThermalGetTemperatureTrendEXT(World, h, a))
xrSetAndroidApplicationThreadKHR ==
  /\ last.op = "none"
  /\ \E h \in SessionArgHandles, a \in AndroidThreadArgs :
       Call("xrSetAndroidApplicationThreadKHR", h, a,
            oxr_xrSetAndroidApplicationThreadKHR(World, h, a))
xrRequestBodyTrackingFidelityMETA ==
  /\ last.op = "none"
  /\ \E h \in TrackerArgHandles, a \in InnerArgs :
       Call("xrRequestBodyTrackingFidelityMETA", h, a,
            oxr_xrRequestBodyTrackingFidelityMETA(World, h, a))

\* The session entrypoints.
SessionCall ==
  \/ xrCreateSession \/ xrDestroySession
  \/ xrBeginSession \/ xrEndSession
  \/ xrWaitFrame \/ xrBeginFrame \/ xrEndFrame
  \/ xrRequestExitSession \/ xrLocateViews
  \/ xrEnumerateDisplayRefreshRatesFB \/ xrGetDisplayRefreshRateFB
  \/ xrRequestDisplayRefreshRateFB
  \/ xrGetVisibilityMaskKHR \/ xrPerfSettingsSetPerformanceLevelEXT
  \/ xrThermalGetTemperatureTrendEXT \/ xrSetAndroidApplicationThreadKHR

Next ==
  \/ SessionCall
  \/ SessionLoss
  \/ Return

Spec == Init /\ [][Next]_vars

(***************************************************************************)
(* The trackers of one session.  The application has created one session   *)
(* and may have begun it (the states Spec reaches after xrCreateSession    *)
(* and xrBeginSession returned success); from there it creates, queries    *)
(* and destroys trackers, the session may be lost, and the session is      *)
(* destroyed.                                                              *)
(***************************************************************************)
InitTrk ==
  /\ sessions = 1
  /\ \E b \in BOOLEAN :
       sess = [i \in Sessions |->
                 IF i = 1 THEN [NoSession EXCEPT !.state = "live", !.has_begun = b]
                 ELSE NoSession]
  /\ trk = [j \in Trackers |-> NoTracker]
  /\ ext \in ExtConfigs
  /\ xsysc = [null |-> FALSE, rates |-> <<60000, 90000>>]
  /\ rate = xsysc.rates[1]
  /\ last = Idle
  /\ chain = NoChain
  /\ thread = NoThreads
  /\ overlap = FALSE

TrackerCall ==
  \/ xrDestroySession
  \/ xrCreateHandTrackerEXT \/ xrCreateFacialTrackerHTC \/ xrCreateBodyTrackerFB
  \/ xrDestroyHandTrackerEXT \/ xrDestroyFacialTrackerHTC \/ xrDestroyBodyTrackerFB
  \/ xrLocateHandJointsEXT \/ xrApplyForceFeedbackCurlMNDX
  \/ xrGetFacialExpressionsHTC \/ xrGetBodySkeletonFB \/ xrLocateBodyJointsFB
  \/ xrRequestBodyTrackingFidelityMETA
  \/ xrRequestExitSession

NextTrk ==
  \/ TrackerCall
  \/ SessionLoss
  \/ Return

SpecTrk == InitTrk /\ [][NextTrk]_vars

(***************************************************************************)
(* Properties of the session entrypoints, checked under Spec.              *)
(***************************************************************************)
\* The application is between two calls.
Between == last.op = "none"

Live(i) == sess[i].state = "live"
NotLost(i) == Live(i) /\ ~sess[i].has_lost
\* The handle of the last call is a session handle.
LastSession == IF IsSession(last.h) THEN last.h[2] ELSE 1

\* C1: on a live, not-lost session that is not begun, xrWaitFrame,
\* xrBeginFrame and xrEndFrame return XR_ERROR_SESSION_NOT_RUNNING whatever
\* their other arguments are, call nothing and leave the whole state (every
\* session's has_begun, lost flag, list link and child set) as it was.
FrameLoopNeedsRunning ==
  Between =>
    \A i \in Sessions :
      NotLost(i) /\ ~sess[i].has_begun =>
        /\ \A a \in WaitFrameArgs :
             LET r == oxr_xrWaitFrame(World, SessionHandle(i), a)
             IN r.ret = XR_ERROR_SESSION_NOT_RUNNING /\ r.w = World /\ r.calls = <<>>
        /\ \A a \in BeginFrameArgs :
             LET r == oxr_xrBeginFrame(World, SessionHandle(i), a)
             IN r.ret = XR_ERROR_SESSION_NOT_RUNNING /\ r.w = World /\ r.calls = <<>>
        /\ \A a \in EndFrameArgs :
             LET r == oxr_xrEndFrame(World, SessionHandle(i), a)
             IN r.ret = XR_ERROR_SESSION_NOT_RUNNING /\ r.w = World /\ r.calls = <<>>

\* xrWaitFrame with a NULL frameState was refused, for not running, on a
\* session that is not begun.
FrameLoopNeedsRunningSeen ==
  /\ last.op = "xrWaitFrame"
  /\ IsSession(last.h)
  /\ NotLost(LastSession)
  /\ ~sess[LastSession].has_begun
  /\ last.a.frameState = "null"
  /\ last.ret = XR_ERROR_SESSION_NOT_RUNNING

\* The arguments of a well-formed xrBeginSession call.
BeginSessionWellFormed == Enumerated({a \in BeginSessionArgs : a.beginInfo = "ok" /\ a.viewType # "invalid"})

\* C2: on a live, not-lost session that is not begun, a well-formed
\* xrBeginSession that the session layer accepts returns XR_SUCCESS and sets
\* has_begun; a second well-formed xrBeginSession right after it returns
\* XR_ERROR_SESSION_RUNNING and leaves the state the first call produced.
BeginSessionTwice ==
  Between =>
    \A i \in Sessions : \A a1 \in BeginSessionWellFormed :
      NotLost(i) /\ ~sess[i].has_begun /\ a1.viewType = "system" /\ a1.inner = XR_SUCCESS =>
        LET r1 == oxr_xrBeginSession(World, SessionHandle(i), a1)
        IN /\ r1.ret = XR_SUCCESS
           /\ r1.w.sess[i].has_begun
           /\ \A a2 \in BeginSessionWellFormed :
                LET r2 == oxr_xrBeginSession(r1.w, SessionHandle(i), a2)
                IN r2.ret = XR_ERROR_SESSION_RUNNING /\ r2.w = r1.w /\ r2.calls = <<>>

\* A well-formed xrBeginSession on a session that is begun was refused.
BeginSessionTwiceSeen ==
  /\ last.op = "xrBeginSession"
  /\ IsSession(last.h)
  /\ NotLost(LastSession)
  /\ sess[LastSession].has_begun
  /\ last.a \in BeginSessionWellFormed
  /\ last.ret = XR_ERROR_SESSION_RUNNING

RequestZero == Enumerated({a \in RequestRateArgs : a.displayRefreshRate = 0})

\* C10 (as the code has it): on a live session that is not lost, begun or
\* not, with or without a compositor, xrRequestDisplayRefreshRateFB with a
\* rate of 0.0 returns XR_SUCCESS, calls nothing and changes nothing; on a
\* lost session it returns XR_ERROR_SESSION_LOST.
RequestZeroIsNoOp ==
  Between =>
    \A i \in Sessions : \A a \in RequestZero :
      LET r == oxr_xrRequestDisplayRefreshRateFB(World, SessionHandle(i), a)
      IN /\ NotLost(i) => r.ret = XR_SUCCESS /\ r.w = World /\ r.calls = <<>>
         /\ Live(i) /\ sess[i].has_lost =>
              r.ret = XR_ERROR_SESSION_LOST /\ r.w = World /\ r.calls = <<>>

\* A request for 0.0 succeeded on a headless system, on a running session.
RequestZeroSeen ==
  /\ last.op = "xrRequestDisplayRefreshRateFB"
  /\ IsSession(last.h)
  /\ NotLost(LastSession)
  /\ sess[LastSession].has_begun
  /\ xsysc.null
  /\ last.a.displayRefreshRate = 0
  /\ last.ret = XR_SUCCESS
  /\ last.calls = <<>>

\* C10 as stated: a request for 0.0 succeeds in any session state.
RequestZeroAnyState ==
  Between =>
    \A i \in Sessions : \A a \in RequestZero :
      Live(i) => oxr_xrRequestDisplayRefreshRateFB(World, SessionHandle(i), a).ret = XR_SUCCESS

\* The supported rates, on a system with a compositor.
Supported == {xsysc.rates[k] : k \in 1..Len(xsysc.rates)}
RequestNonZero == Enumerated({a \in RequestRateArgs : a.displayRefreshRate # 0})

\* C11 (as the code has it): with a compositor, on a live session that is
\* not lost, a nonzero request is forwarded to the session layer iff its
\* rate truncated to two decimals equals a supported rate truncated the same
\* way, and is refused with the unsupported-rate error, nothing called and
\* nothing changed, otherwise.  60.005 with 60.00 supported is forwarded;
\* 59.999 (truncated 59.99) and 59.94 with 60.00 supported are refused.
RequestRateTruncated ==
  Between /\ ~xsysc.null =>
    \A i \in Sessions : \A a \in RequestNonZero :
      NotLost(i) =>
        LET r == oxr_xrRequestDisplayRefreshRateFB(World, SessionHandle(i), a)
            match == \E s \in Supported : Trunc2(s) = Trunc2(a.displayRefreshRate)
        IN /\ match => /\ r.ret = a.inner
                       /\ Len(r.calls) = 1
                       /\ r.ret = XR_SUCCESS => r.w.rate = a.displayRefreshRate
           /\ ~match => /\ r.ret = XR_ERROR_DISPLAY_REFRESH_RATE_UNSUPPORTED_FB
                        /\ r.w = World /\ r.calls = <<>>
           /\ 60000 \in Supported =>
                (match <=> a.displayRefreshRate \in {60000, 60005})

\* A request for 60.005 was forwarded and accepted with 60.00 supported.
RequestRateTruncatedSeen ==
  /\ last.op = "xrRequestDisplayRefreshRateFB"
  /\ IsSession(last.h)
  /\ ~xsysc.null
  /\ 60000 \in Supported
  /\ last.a.displayRefreshRate = 60005
  /\ last.ret = XR_SUCCESS
  /\ Len(last.calls) = 1
  /\ rate = 60005

\* C11 as stated: a request for 59.999 with 60.00 supported is accepted.
Request59999Accepted ==
  Between /\ ~xsysc.null /\ 60000 \in Supported =>
    \A i \in Sessions : \A a \in RequestNonZero :
      NotLost(i) /\ a.displayRefreshRate = 59999 /\ a.inner = XR_SUCCESS =>
        oxr_xrRequestDisplayRefreshRateFB(World, SessionHandle(i), a).ret = XR_SUCCESS

\* C12: on a headless system, on a live session that is not lost,
\* xrEnumerateDisplayRefreshRatesFB reports zero rates,
\* xrGetDisplayRefreshRateFB reports a rate of 0, and
\* xrRequestDisplayRefreshRateFB returns a result code for every requested
\* rate: no call reads through the absent compositor.
HeadlessNeverFails ==
  Between /\ xsysc.null =>
    \A i \in Sessions :
      NotLost(i) =>
        /\ \A a \in EnumerateRatesArgs :
             a.countOutput = "ok" =>
               LET r == oxr_xrEnumerateDisplayRefreshRatesFB(World, SessionHandle(i), a)
               IN r.ret = XR_SUCCESS /\ r.out.count = 0
        /\ \A a \in InnerArgs :
             LET r == oxr_xrGetDisplayRefreshRateFB(World, SessionHandle(i), a)
             IN r.ret = XR_SUCCESS /\ r.out.count = 0
        /\ \A a \in RequestRateArgs :
             oxr_xrRequestDisplayRefreshRateFB(World, SessionHandle(i), a).ret # "CRASH"

FrameLoopReturns(w, i, ret) ==
  /\ \A a \in WaitFrameArgs : oxr_xrWaitFrame(w, SessionHandle(i), a).ret = ret
  /\ \A a \in BeginFrameArgs : oxr_xrBeginFrame(w, SessionHandle(i), a).ret = ret
  /\ \A a \in EndFrameArgs : oxr_xrEndFrame(w, SessionHandle(i), a).ret = ret

\* C16: on a live session that is not lost, xrEndSession returns
\* XR_ERROR_SESSION_NOT_RUNNING and changes nothing when the session is not
\* begun; when it is begun and the session layer ends it, xrEndSession
\* returns XR_SUCCESS and clears has_begun, and from the state it leaves the
\* frame-loop calls return XR_ERROR_SESSION_NOT_RUNNING, a well-formed
\* xrBeginSession succeeds and sets has_begun again, and xrDestroySession
\* succeeds.
EndSessionNeedsRunning ==
  Between =>
    \A i \in Sessions : \A a \in InnerArgs :
      NotLost(i) =>
        LET r == oxr_xrEndSession(World, SessionHandle(i), a)
        IN /\ ~sess[i].has_begun =>
                r.ret = XR_ERROR_SESSION_NOT_RUNNING /\ r.w = World /\ r.calls = <<>>
           /\ sess[i].has_begun /\ a.inner = XR_SUCCESS =>
                /\ r.ret = XR_SUCCESS
                /\ r.w = [World EXCEPT !.sess[i].has_begun = FALSE]
                /\ FrameLoopReturns(r.w, i, XR_ERROR_SESSION_NOT_RUNNING)
                /\ \A b \in BeginSessionWellFormed :
                     b.viewType = "system" /\ b.inner = XR_SUCCESS =>
                       LET r2 == oxr_xrBeginSession(r.w, SessionHandle(i), b)
                       IN r2.ret = XR_SUCCESS /\ r2.w.sess[i].has_begun
                /\ LET r3 == oxr_xrDestroySession(r.w, SessionHandle(i))
                   IN r3.ret = XR_SUCCESS /\ r3.w.sess[i].state = "dead"

\* xrEndSession ended a session that was begun.
EndSessionNeedsRunningSeen ==
  /\ last.op = "xrEndSession"
  /\ IsSession(last.h)
  /\ last.ret = XR_SUCCESS
  /\ Live(LastSession)
  /\ ~sess[LastSession].has_begun
  /\ Len(last.calls) = 1

(***************************************************************************)
(* Properties of the trackers, checked under SpecTrk.                      *)
(***************************************************************************)
LiveTracker(j, kind) == trk[j].state = "live" /\ trk[j].kind = kind
\* The trackers that were created on session i, destroyed or not.
CreatedOn(i) == {j \in Trackers : trk[j].state # "none" /\ trk[j].sess = i}
LastTracker == IF IsTracker(last.h) THEN last.h[2] ELSE 1
\* Tracker j belongs to a live session that is not lost.
Usable(j) == trk[j].sess \in Sessions /\ NotLost(trk[j].sess)
\* The fixed joint count of a body tracker's joint set.
BodyJointCount(j) ==
  IF trk[j].variant = "FULL_BODY_META" THEN XRT_FULL_BODY_JOINT_COUNT_META
  ELSE XRT_BODY_JOINT_COUNT_FB

\* C3 (as stated, for the entrypoints that take a tracker of the session):
\* once the session is lost, creating a tracker on it and locating, getting
\* or applying force feedback on one of its hand or body trackers returns
\* XR_ERROR_SESSION_LOST whatever the other arguments are.
LostSessionRefusesAll ==
  Between =>
    \A i \in Sessions :
      Live(i) /\ sess[i].has_lost =>
        /\ \A a \in CreateHandTrackerArgs :
             oxr_xrCreateHandTrackerEXT(World, SessionHandle(i), a).ret = XR_ERROR_SESSION_LOST
        /\ \A a \in CreateFacialTrackerArgs :
             oxr_xrCreateFacialTrackerHTC(World, SessionHandle(i), a).ret = XR_ERROR_SESSION_LOST
        /\ \A a \in CreateBodyTrackerArgs :
             oxr_xrCreateBodyTrackerFB(World, SessionHandle(i), a).ret = XR_ERROR_SESSION_LOST
        /\ \A j \in CreatedOn(i) :
             /\ LiveTracker(j, "hand") =>
                  /\ \A a \in LocateHandJointsArgs :
                       oxr_xrLocateHandJointsEXT(World, TrackerHandle(j), a).ret
                         = XR_ERROR_SESSION_LOST
                  /\ \A a \in ApplyForceFeedbackArgs :
                       oxr_xrApplyForceFeedbackCurlMNDX(World, TrackerHandle(j), a).ret
                         = XR_ERROR_SESSION_LOST
             /\ LiveTracker(j, "body") =>
                  /\ \A a \in GetBodySkeletonArgs :
                       oxr_xrGetBodySkeletonFB(World, TrackerHandle(j), a).ret
                         = XR_ERROR_SESSION_LOST
                  /\ \A a \in LocateBodyJointsArgs :
                       oxr_xrLocateBodyJointsFB(World, TrackerHandle(j), a).ret
                         = XR_ERROR_SESSION_LOST

\* Every locate, get and destroy entrypoint refuses tracker handle h in
\* world w as an invalid handle.
TrackerInvalid(w, h) ==
  /\ \A a \in LocateHandJointsArgs :
       oxr_xrLocateHandJointsEXT(w, h, a).ret = XR_ERROR_HANDLE_INVALID
  /\ \A a \in ApplyForceFeedbackArgs :
       oxr_xrApplyForceFeedbackCurlMNDX(w, h, a).ret = XR_ERROR_HANDLE_INVALID
  /\ \A a \in GetBodySkeletonArgs :
       oxr_xrGetBodySkeletonFB(w, h, a).ret = XR_ERROR_HANDLE_INVALID
  /\ \A a \in LocateBodyJointsArgs :
       oxr_xrLocateBodyJointsFB(w, h, a).ret = XR_ERROR_HANDLE_INVALID
  /\ \A a \in GetFacialExpressionsArgs :
       oxr_xrGetFacialExpressionsHTC(w, h, a).ret = XR_ERROR_HANDLE_INVALID
  /\ oxr_xrDestroyHandTrackerEXT(w, h).ret = XR_ERROR_HANDLE_INVALID
  /\ oxr_xrDestroyFacialTrackerHTC(w, h).ret = XR_ERROR_HANDLE_INVALID
  /\ oxr_xrDestroyBodyTrackerFB(w, h).ret = XR_ERROR_HANDLE_INVALID

\* C4: xrDestroySession on a live session returns XR_SUCCESS whether the
\* session is begun or not and lost or not, and in the state it leaves every
\* tracker that was created on the session is refused as an invalid handle
\* by every locate, get and destroy entrypoint.
DestroySessionInvalidatesTrackers ==
  Between =>
    \A i \in Sessions :
      Live(i) =>
        LET r == oxr_xrDestroySession(World, SessionHandle(i))
        IN /\ r.ret = XR_SUCCESS
           /\ r.w.sess[i].state = "dead"
           /\ \A j \in CreatedOn(i) : TrackerInvalid(r.w, TrackerHandle(j))

\* xrDestroySession succeeded and its cascade took a tracker with it.
DestroySessionInvalidatesTrackersSeen ==
  /\ last.op = "xrDestroySession"
  /\ last.ret = XR_SUCCESS
  /\ \E j \in CreatedOn(LastSession) :
       /\ trk[j].state = "dead"
       /\ \E k \in 1..Len(last.calls) : last.calls[k] = <<"destroy_cb", TrackerHandle(j)>>

\* C5: a destroy call on a handle that was destroyed before returns
\* XR_ERROR_HANDLE_INVALID, runs no destroy callback and leaves the session
\* list, every child set and every handle as they were.
SecondDestroyRefused ==
  Between =>
    /\ \A i \in Sessions :
         sess[i].state = "dead" =>
           LET r == oxr_xrDestroySession(World, SessionHandle(i))
           IN r.ret = XR_ERROR_HANDLE_INVALID /\ r.w = World /\ r.calls = <<>>
    /\ \A j \in Trackers :
         trk[j].state = "dead" =>
           /\ LET r == oxr_xrDestroyHandTrackerEXT(World, TrackerHandle(j))
              IN r.ret = XR_ERROR_HANDLE_INVALID /\ r.w = World /\ r.calls = <<>>
           /\ LET r == oxr_xrDestroyFacialTrackerHTC(World, TrackerHandle(j))
              IN r.ret = XR_ERROR_HANDLE_INVALID /\ r.w = World /\ r.calls = <<>>
           /\ LET r == oxr_xrDestroyBodyTrackerFB(World, TrackerHandle(j))
              IN r.ret = XR_ERROR_HANDLE_INVALID /\ r.w = World /\ r.calls = <<>>

\* xrDestroyBodyTrackerFB was refused on a body tracker destroyed before.
SecondDestroyRefusedSeen ==
  /\ last.op = "xrDestroyBodyTrackerFB"
  /\ IsTracker(last.h)
  /\ trk[LastTracker].state = "dead"
  /\ trk[LastTracker].kind = "body"
  /\ trk[LastTracker].cb = 1
  /\ last.ret = XR_ERROR_HANDLE_INVALID

\* The handles whose callbacks a call ran, in the order it ran them.
Destroyed(calls) == [k \in 1..Len(calls) |-> calls[k][2]]

\* C6: the destroy callback of a tracker has run once when the tracker is
\* destroyed and never otherwise; a destroyed tracker is no child any more,
\* so the cascade cannot reach it again; a destroyed session has no tracker
\* left alive; and xrDestroySession runs the callback of each remaining
\* child once, all of them before the session's own.
DestroyedExactlyOnce ==
  /\ \A j \in Trackers : trk[j].cb = IF trk[j].state = "dead" THEN 1 ELSE 0
  /\ \A i \in Sessions : sess[i].cb = IF sess[i].state = "dead" THEN 1 ELSE 0
  /\ \A i \in Sessions :
       sess[i].children =
         {j \in Trackers : trk[j].state = "live" /\ trk[j].sess = i /\ Live(i)}
  /\ \A i \in Sessions :
       sess[i].state = "dead" => \A j \in CreatedOn(i) : trk[j].state = "dead"
  /\ Between =>
       \A i \in Sessions :
         Live(i) =>
           LET r == oxr_xrDestroySession(World, SessionHandle(i))
               n == Len(r.calls)
           IN /\ n = Cardinality(sess[i].children) + 1
              /\ Destroyed(r.calls)[n] = SessionHandle(i)
              /\ {Destroyed(r.calls)[k] : k \in 1..(n - 1)}
                   = {TrackerHandle(j) : j \in sess[i].children}
              /\ \A j \in CreatedOn(i) : r.w.trk[j].cb = 1

\* A session was destroyed after one of its trackers had been destroyed by
\* the application: the cascade ran the callback of the other one only.
DestroyedExactlyOnceSeen ==
  /\ last.op = "xrDestroySession"
  /\ last.ret = XR_SUCCESS
  /\ Len(last.calls) = 2
  /\ Cardinality(CreatedOn(LastSession)) = 2
  /\ \A j \in CreatedOn(LastSession) : trk[j].cb = 1

\* The arguments of xrCreateBodyTrackerFB and xrCreateFacialTrackerHTC for
\* which the role has no device, or one that does not support the tracking.
NoBodyDevice == Enumerated({a \in CreateBodyTrackerArgs :
                   a.xdev = NoDev \/ ~XDev(a.xdev).body_tracking_supported})
NoFaceDevice == Enumerated({a \in CreateFacialTrackerArgs :
                   a.xdev = NoDev \/ ~XDev(a.xdev).face_tracking_supported})
\* The arguments of xrCreateHandTrackerEXT that pass every check although
\* the hand has no device that supports hand tracking with that input.
NoHandDevice == Enumerated({a \in CreateHandTrackerArgs :
                   /\ a.createInfo = "ok" /\ a.handTracker = "ok"
                   /\ a.hand \in {"LEFT", "RIGHT"} /\ a.sys_support /\ a.alloc_ok
                   /\ \/ a.xdev = NoDev
                      \/ ~XDev(a.xdev).hand_tracking_supported
                      \/ a.hand \notin XDev(a.xdev).inputs})

HandCapacityOnly == Enumerated({a \in LocateHandJointsAll :
                       /\ a.locateInfo = "ok" /\ a.locations = "ok"
                       /\ a.jointLocations = "ok" /\ a.baseSpace = "ok"
                       /\ a.time > 0
                       /\ a.jointCount # XR_HAND_JOINT_COUNT_EXT})
BodyCapacityOnly == Enumerated({a \in LocateBodyJointsAll :
                       /\ a.locateInfo = "ok" /\ a.locations = "ok"
                       /\ a.jointLocations = "ok" /\ a.baseSpace = "ok"
                       /\ a.time > 0 /\ a.supported})
SkeletonCapacityOnly ==
  Enumerated({a \in GetBodySkeletonArgs : a.skeleton = "ok" /\ a.supported})

\* What a query with too small a capacity does on live tracker j.
RefusedWith(r, code) ==
  r.ret = code /\ r.out = NoOut /\ r.calls = <<>> /\ r.w = World

BodyInactive == Enumerated({a \in BodyCapacityOnly :
                   /\ a.jointCount = XRT_FULL_BODY_JOINT_COUNT_META
                   /\ a.dev_ok /\ a.base_pose = XR_SUCCESS /\ ~a.is_active})

\* C9 (as stated, for the body tracker): when the device reports inactive
\* tracking, xrLocateBodyJointsFB returns XR_SUCCESS with isActive false and
\* has cleared the location flags of every joint of the tracker's joint set.
InactiveClearsEveryJoint ==
  Between =>
    \A j \in Trackers :
      Usable(j) /\ LiveTracker(j, "body") =>
        \A a \in BodyInactive :
          LET r == oxr_xrLocateBodyJointsFB(World, TrackerHandle(j), a)
          IN /\ r.ret = XR_SUCCESS
             /\ r.out.isActive = "XR_FALSE"
             /\ r.out.nflags = BodyJointCount(j)


(***************************************************************************)
(* Extension gating, checked under SpecTrk.                                *)
(***************************************************************************)
Disabled(e) == e \notin ext
\* The call was refused for a missing extension and did nothing.
Ungranted(r) ==
  r.ret = XR_ERROR_FUNCTION_UNSUPPORTED /\ r.w = World /\ r.calls = <<>> /\ r.out = NoOut

\* C14: on a live session that is not lost, and on a live tracker of such a
\* session, every entrypoint of an extension that is not enabled returns
\* XR_ERROR_FUNCTION_UNSUPPORTED, whatever its other arguments are, creates
\* no handle, calls nothing, writes nothing and changes nothing.
ExtensionGated ==
  Between =>
    /\ \A i \in Sessions :
         NotLost(i) =>
           LET h == SessionHandle(i) IN
           /\ Disabled("EXT_hand_tracking") =>
                \A a \in CreateHandTrackerArgs :
                  Ungranted(oxr_xrCreateHandTrackerEXT(World, h, a))
           /\ Disabled("HTC_facial_tracking") =>
                \A a \in CreateFacialTrackerArgs :
                  Ungranted(oxr_xrCreateFacialTrackerHTC(World, h, a))
           /\ Disabled("FB_body_tracking") =>
                \A a \in CreateBodyTrackerArgs :
                  Ungranted(oxr_xrCreateBodyTrackerFB(World, h, a))
           /\ Disabled("FB_display_refresh_rate") =>
                /\ \A a \in EnumerateRatesArgs :
                     Ungranted(oxr_xrEnumerateDisplayRefreshRatesFB(World, h, a))
                /\ \A a \in InnerArgs :
                     Ungranted(oxr_xrGetDisplayRefreshRateFB(World, h, a))
                /\ \A a \in RequestRateArgs :
                     Ungranted(oxr_xrRequestDisplayRefreshRateFB(World, h, a))
           /\ Disabled("KHR_visibility_mask") =>
                \A a \in GetVisibilityMaskAll :
                  Ungranted(oxr_xrGetVisibilityMaskKHR(World, h, a))
           /\ Disabled("EXT_performance_settings") =>
                \A a \in PerfSettingsArgs :
                  Ungranted(oxr_xrPerfSettingsSetPerformanceLevelEXT(World, h, a))
           /\ Disabled("EXT_thermal_query") =>
                \A a \in ThermalArgs :
                  Ungranted(oxr_xrThermalGetTemperatureTrendEXT(World, h, a))
           /\ Disabled("KHR_android_thread_settings") =>
                \A a \in AndroidThreadArgs :
                  Ungranted(oxr_xrSetAndroidApplicationThreadKHR(World, h, a))
    /\ \A j \in Trackers :
         trk[j].state = "live" /\ Usable(j) =>
           LET h == TrackerHandle(j) IN
           /\ LiveTracker(j, "hand") /\ Disabled("MNDX_force_feedback_curl") =>
                \A a \in ApplyForceFeedbackArgs :
                  Ungranted(oxr_xrApplyForceFeedbackCurlMNDX(World, h, a))
           /\ LiveTracker(j, "body") /\ Disabled("META_body_tracking_fidelity") =>
                \A a \in InnerArgs :
                  Ungranted(oxr_xrRequestBodyTrackingFidelityMETA(World, h, a))

(***************************************************************************)
(* Outputs of failed calls, checked under SpecTrk.                         *)
(***************************************************************************)
\* The call returned an error code.
IsError(r) == r.ret \notin {XR_SUCCESS, "CRASH"}

\* C15: whenever xrGetVisibilityMaskKHR, xrLocateBodyJointsFB,
\* xrGetBodySkeletonFB, xrGetFacialExpressionsHTC or xrLocateHandJointsEXT
\* returns an error code, on any handle and with any arguments, it has
\* written no field of the caller's output structure.
FailureWritesNothing ==
  Between =>
    /\ \A h \in SessionArgHandles : \A a \in GetVisibilityMaskAll :
         LET r == oxr_xrGetVisibilityMaskKHR(World, h, a)
         IN IsError(r) => r.out = NoOut
    /\ \A h \in TrackerArgHandles :
         /\ \A a \in LocateBodyJointsArgs :
              LET r == oxr_xrLocateBodyJointsFB(World, h, a)
              IN IsError(r) => r.out = NoOut
         /\ \A a \in GetBodySkeletonArgs :
              LET r == oxr_xrGetBodySkeletonFB(World, h, a)
              IN IsError(r) => r.out = NoOut
         /\ \A a \in GetFacialExpressionsArgs :
              LET r == oxr_xrGetFacialExpressionsHTC(World, h, a)
              IN IsError(r) => r.out = NoOut
         /\ \A a \in LocateHandJointsArgs :
              LET r == oxr_xrLocateHandJointsEXT(World, h, a)
              IN IsError(r) => r.out = NoOut

(***************************************************************************)
(* The exit request, checked under SpecTrk.                                *)
(***************************************************************************)
\* C17: on a live session that is not lost, xrRequestExitSession returns
\* XR_ERROR_SESSION_NOT_RUNNING and changes nothing when the session is not
\* begun; when it is begun the call returns what the session layer returns
\* and destroys nothing: the session is still in the instance's list and
\* alive, every child tracker is still alive, no destroy callback has run,
\* and a later xrDestroySession is what tears the session and its children
\* down.
RequestExitDestroysNothing ==
  Between =>
    \A i \in Sessions : \A a \in InnerArgs :
      NotLost(i) =>
        LET r == oxr_xrRequestExitSession(World, SessionHandle(i), a)
        IN /\ ~sess[i].has_begun =>
                r.ret = XR_ERROR_SESSION_NOT_RUNNING /\ r.w = World /\ r.calls = <<>>
           /\ sess[i].has_begun =>
                /\ r.ret = a.inner
                /\ InList(r.w, i)
                /\ r.w.sess[i].state = "live"
                /\ r.w.sess[i].cb = 0
                /\ r.w.sess[i].children = sess[i].children
                /\ \A j \in sess[i].children :
                     r.w.trk[j].state = "live" /\ r.w.trk[j].cb = 0
                /\ r.w = World
                /\ LET d == oxr_xrDestroySession(r.w, SessionHandle(i))
                   IN /\ d.ret = XR_SUCCESS
                      /\ d.w.sess[i].state = "dead"
                      /\ \A j \in sess[i].children : d.w.trk[j].state = "dead"

\* An exit request was accepted on a running session that has a tracker,
\* and the session and the tracker are still alive.
RequestExitDestroysNothingSeen ==
  /\ last.op = "xrRequestExitSession"
  /\ IsSession(last.h)
  /\ last.ret = XR_SUCCESS
  /\ NotLost(LastSession)
  /\ sess[LastSession].has_begun
  /\ InList(World, LastSession)
  /\ sess[LastSession].children # {}
  /\ \A j \in sess[LastSession].children : trk[j].state = "live"

(***************************************************************************)
(* Timestamps, checked under SpecTrk.                                      *)
(***************************************************************************)
\* Calls whose timestamp is not positive.
LocateViewsEarly ==
  Enumerated({a \in Near(LocateViewsAll, LocateViewsValid) : a.displayTime <= 0})
LocateHandJointsEarly == Enumerated({a \in LocateHandJointsArgs : a.time <= 0})
LocateBodyJointsEarly == Enumerated({a \in LocateBodyJointsArgs : a.time <= 0})
\* The call was refused before anything was queried or written.
Untouched(r) == r.w = World /\ r.calls = <<>> /\ r.out = NoOut /\ IsError(r)

\* C18: xrLocateViews, xrLocateHandJointsEXT and xrLocateBodyJointsFB called
\* with a timestamp <= 0 never query the session layer or the device and
\* never write an output; and when the handle is alive, the session not
\* lost and the arguments checked before the timestamp are good (for the
\* body query also the joint count), they return XR_ERROR_TIME_INVALID.
NonPositiveTimeRefused ==
  Between =>
    /\ \A i \in Sessions : \A a \in LocateViewsEarly :
         LET r == oxr_xrLocateViews(World, SessionHandle(i), a)
         IN /\ Untouched(r)
            /\ /\ NotLost(i)
               /\ a.viewLocateInfo = "ok" /\ a.space = "ok" /\ a.viewState = "ok"
               /\ a.viewType # "invalid"
               /\ IF a.viewCapacityInput = 0 THEN a.viewCountOutput = "ok"
                  ELSE a.views = "ok" /\ a.viewsTyped
               => r.ret = XR_ERROR_TIME_INVALID
    /\ \A j \in Trackers :
         /\ \A a \in LocateHandJointsEarly :
              LET r == oxr_xrLocateHandJointsEXT(World, TrackerHandle(j), a)
              IN /\ Untouched(r)
                 /\ /\ LiveTracker(j, "hand") /\ Usable(j)
                    /\ a.locateInfo = "ok" /\ a.locations = "ok"
                    /\ a.jointLocations = "ok" /\ a.baseSpace = "ok"
                    => r.ret = XR_ERROR_TIME_INVALID
         /\ \A a \in LocateBodyJointsEarly :
              LET r == oxr_xrLocateBodyJointsFB(World, TrackerHandle(j), a)
              IN /\ Untouched(r)
                 /\ /\ LiveTracker(j, "body") /\ Usable(j)
                    /\ a.locateInfo = "ok" /\ a.locations = "ok"
                    /\ a.jointLocations = "ok" /\ a.baseSpace = "ok"
                    /\ a.supported
                    /\ a.jointCount >= BodyJointCount(j)
                    => r.ret = XR_ERROR_TIME_INVALID

\* A body query with timestamp 0, otherwise good and with a device that
\* would have answered, was refused for its time without a device call.
NonPositiveTimeRefusedSeen ==
  /\ last.op = "xrLocateBodyJointsFB"
  /\ IsTracker(last.h)
  /\ LiveTracker(LastTracker, "body")
  /\ last.a.time = 0
  /\ last.a.dev_ok
  /\ last.ret = XR_ERROR_TIME_INVALID
  /\ last.calls = <<>>
  /\ last.out = NoOut

(***************************************************************************)
(* The relation chain on its own: relations are pushed, the chain is       *)
(* resolved, and the resolved relation starts a new chain (as T_base_body  *)
(* of line 1045, itself the result of a resolution, is pushed at 1078).    *)
(***************************************************************************)
Poses ==
  {IdentityPose, [rot |-> 1, pos |-> <<0, 0>>], [rot |-> 0, pos |-> <<1, 0>>],
   [rot |-> 3, pos |-> <<2, 1>>]}
Masks ==
  {Components, {"orientation", "position"}, {"orientation"},
   {"position", "position_velocity"}}
Relations == [pose : Poses, relation_flags : Masks]

InitRel ==
  /\ sessions = 0
  /\ sess = [i \in Sessions |-> NoSession]
  /\ trk = [j \in Trackers |-> NoTracker]
  /\ ext = Extensions
  /\ xsysc = [null |-> TRUE, rates |-> <<>>]
  /\ rate = 0
  /\ last = Idle
  /\ chain = NoChain
  /\ thread = NoThreads
  /\ overlap = FALSE

ChainPush ==
  /\ ~chain.resolved
  /\ Len(chain.steps) < MaxChain
  /\ \E relation \in Relations :
       chain' = m_relation_chain_push_relation(chain, relation)
  /\ UNCHANGED <<sessions, sess, trk, ext, xsysc, rate, last, thread, overlap>>

ChainResolve ==
  /\ ~chain.resolved
  /\ chain' = [chain EXCEPT !.resolved = TRUE,
                            !.result = m_relation_chain_resolve(chain.steps)]
  /\ UNCHANGED <<sessions, sess, trk, ext, xsysc, rate, last, thread, overlap>>

\* The resolved relation is the first step of a new chain.
ChainRestart ==
  /\ chain.resolved
  /\ chain' = m_relation_chain_push_relation(NoChain, chain.result)
  /\ UNCHANGED <<sessions, sess, trk, ext, xsysc, rate, last, thread, overlap>>

NextRel ==
  \/ ChainPush
  \/ ChainResolve
  \/ ChainRestart

SpecRel == InitRel /\ [][NextRel]_vars

WaitFrameOk == [frameWaitInfo : {"ok"}, frameState : {"ok"}, inner : {XR_SUCCESS},
                advance : Advances]

RuntimeFailure(r) ==
  /\ r.ret = XR_ERROR_RUNTIME_FAILURE
  /\ Len(r.calls) = 1
  /\ r.out = NoOut
  /\ r.w = World
\* The arguments of a well-formed query for which the device fails.
SkeletonDeviceFails == Enumerated({a \in SkeletonCapacityOnly : ~a.dev_ok})
BodyDeviceFails == Enumerated({a \in BodyCapacityOnly : ~a.dev_ok})
FaceDeviceFails == Enumerated({a \in GetFacialExpressionsAll :
                      /\ a.facialExpressions = "ok" /\ a.expressionWeightings = "ok"
                      /\ a.expressionCount = XRT_FACIAL_EXPRESSION_LIP_COUNT_HTC
                      /\ ~a.dev_ok})

\* C21 (as stated): on a live tracker of a session that is not lost, a
\* well-formed xrGetBodySkeletonFB, xrLocateBodyJointsFB or
\* xrGetFacialExpressionsHTC whose device call fails returns
\* XR_ERROR_RUNTIME_FAILURE after that one device call and reports no data;
\* and the part of xrGetFacialExpressionsHTC that asks the device (lines
\* 823-849) does not return XR_SUCCESS when the device fails.
DeviceFailureIsRuntimeFailure ==
  Between =>
    \A j \in Trackers :
      Usable(j) =>
        /\ LiveTracker(j, "body") =>
             /\ \A a \in SkeletonDeviceFails :
                  a.jointCount >= BodyJointCount(j) =>
                    RuntimeFailure(oxr_xrGetBodySkeletonFB(World, TrackerHandle(j), a))
             /\ \A a \in BodyDeviceFails :
                  a.jointCount >= BodyJointCount(j) =>
                    RuntimeFailure(oxr_xrLocateBodyJointsFB(World, TrackerHandle(j), a))
        /\ LiveTracker(j, "face") =>
             \A a \in FaceDeviceFails :
               /\ RuntimeFailure(oxr_xrGetFacialExpressionsHTC(World, TrackerHandle(j), a))
               /\ GetFacialExpressions_FromDevice(World, trk[j], a).ret # XR_SUCCESS

(***************************************************************************)
(* Order of the checks, checked under SpecTrk.                             *)
(***************************************************************************)
\* Calls with a malformed argument.
LocateBodyJointsMalformed ==
  Enumerated({a \in LocateBodyJointsArgs : a.locateInfo # "ok" \/ a.locations # "ok"})
GetVisibilityMaskMalformed ==
  Enumerated({a \in Near(GetVisibilityMaskAll, GetVisibilityMaskValid) :
     \/ a.viewType = "invalid" \/ a.viewIndex >= 2
     \/ a.visibilityMaskType = "invalid" \/ a.visibilityMask = "badtype"})
AndroidThreadMalformed == Enumerated({a \in AndroidThreadArgs : a.threadType = "invalid"})
CreateBodyTrackerMalformed ==
  Enumerated({a \in CreateBodyTrackerArgs : a.createInfo # "ok"})

\* C22 (as stated): the checks are made in the order handle, session not
\* lost, argument shape, extension.  On a lost session a call with a
\* malformed argument returns XR_ERROR_SESSION_LOST; on a session that is
\* not lost a call with a malformed argument to an entrypoint of a disabled
\* extension returns XR_ERROR_VALIDATION_FAILURE, the missing extension
\* being reported only when the arguments are well formed.
ChecksInFixedOrder ==
  Between =>
    /\ \A i \in Sessions :
         LET h == SessionHandle(i) IN
         /\ Live(i) /\ sess[i].has_lost =>
              /\ \A a \in GetVisibilityMaskMalformed :
                   oxr_xrGetVisibilityMaskKHR(World, h, a).ret = XR_ERROR_SESSION_LOST
              /\ \A a \in AndroidThreadMalformed :
                   oxr_xrSetAndroidApplicationThreadKHR(World, h, a).ret
                     = XR_ERROR_SESSION_LOST
              /\ \A a \in CreateBodyTrackerMalformed :
                   oxr_xrCreateBodyTrackerFB(World, h, a).ret = XR_ERROR_SESSION_LOST
         /\ NotLost(i) =>
              /\ Disabled("KHR_visibility_mask") =>
                   \A a \in GetVisibilityMaskMalformed :
                     oxr_xrGetVisibilityMaskKHR(World, h, a).ret
                       \in {XR_ERROR_VALIDATION_FAILURE,
                            XR_ERROR_VIEW_CONFIGURATION_TYPE_UNSUPPORTED}
              /\ Disabled("KHR_android_thread_settings") =>
                   \A a \in AndroidThreadMalformed :
                     oxr_xrSetAndroidApplicationThreadKHR(World, h, a).ret
                       = XR_ERROR_VALIDATION_FAILURE
              /\ Disabled("FB_body_tracking") =>
                   \A a \in CreateBodyTrackerMalformed :
                     oxr_xrCreateBodyTrackerFB(World, h, a).ret
                       = XR_ERROR_VALIDATION_FAILURE
    /\ \A j \in Trackers :
         (/\ LiveTracker(j, "body") /\ trk[j].sess \in Sessions
          /\ Live(trk[j].sess) /\ sess[trk[j].sess].has_lost) =>
           \A a \in LocateBodyJointsMalformed :
             oxr_xrLocateBodyJointsFB(World, TrackerHandle(j), a).ret
               = XR_ERROR_SESSION_LOST

\* The part of C22 the code keeps: xrSetAndroidApplicationThreadKHR and
\* xrCreateBodyTrackerFB check in the stated order.
ChecksInFixedOrderKept ==
  Between =>
    \A i \in Sessions :
      LET h == SessionHandle(i) IN
      /\ Live(i) /\ sess[i].has_lost =>
           /\ \A a \in GetVisibilityMaskMalformed :
                oxr_xrGetVisibilityMaskKHR(World, h, a).ret = XR_ERROR_SESSION_LOST
           /\ \A a \in AndroidThreadMalformed :
                oxr_xrSetAndroidApplicationThreadKHR(World, h, a).ret
                  = XR_ERROR_SESSION_LOST
           /\ \A a \in CreateBodyTrackerMalformed :
                oxr_xrCreateBodyTrackerFB(World, h, a).ret = XR_ERROR_SESSION_LOST
      /\ NotLost(i) =>
           /\ Disabled("KHR_android_thread_settings") =>
                \A a \in AndroidThreadMalformed :
                  oxr_xrSetAndroidApplicationThreadKHR(World, h, a).ret
                    = XR_ERROR_VALIDATION_FAILURE
           /\ Disabled("FB_body_tracking") =>
                \A a \in CreateBodyTrackerMalformed :
                  oxr_xrCreateBodyTrackerFB(World, h, a).ret
                    = XR_ERROR_VALIDATION_FAILURE

(***************************************************************************)
(* XR_ERROR_HANDLE_INVALID, checked under SpecTrk.                         *)
(***************************************************************************)
\* The primary handle is a live handle of the right type.
GoodSession(h) == IsSession(h) /\ Live(h[2])
GoodTracker(h, kind) == IsTracker(h) /\ LiveTracker(h[2], kind)
\* The call returned XR_ERROR_HANDLE_INVALID iff its handle was not good.
InvalidIff(r, good) == (r.ret = XR_ERROR_HANDLE_INVALID) <=> ~good

\* C23 (as stated): an entrypoint returns XR_ERROR_HANDLE_INVALID iff its
\* primary handle is null, of the wrong type or not alive, whatever its
\* other arguments are.
HandleInvalidIffBadHandle ==
  Between =>
    /\ \A h \in SessionArgHandles :
         /\ \A a \in ThermalArgs :
              InvalidIff(oxr_xrThermalGetTemperatureTrendEXT(World, h, a), GoodSession(h))
         /\ \A a \in BeginSessionArgs :
              InvalidIff(oxr_xrBeginSession(World, h, a), GoodSession(h))
         /\ \A a \in InnerArgs :
              InvalidIff(oxr_xrEndSession(World, h, a), GoodSession(h))
         /\ InvalidIff(oxr_xrDestroySession(World, h), GoodSession(h))
    /\ \A h \in TrackerArgHandles :
         /\ \A a \in LocateHandJointsArgs :
              InvalidIff(oxr_xrLocateHandJointsEXT(World, h, a), GoodTracker(h, "hand"))
         /\ \A a \in ApplyForceFeedbackArgs :
              InvalidIff(oxr_xrApplyForceFeedbackCurlMNDX(World, h, a), GoodTracker(h, "hand"))
         /\ \A a \in GetFacialExpressionsArgs :
              InvalidIff(oxr_xrGetFacialExpressionsHTC(World, h, a), GoodTracker(h, "face"))
         /\ \A a \in GetBodySkeletonArgs :
              InvalidIff(oxr_xrGetBodySkeletonFB(World, h, a), GoodTracker(h, "body"))
         /\ \A a \in LocateBodyJointsArgs :
              InvalidIff(oxr_xrLocateBodyJointsFB(World, h, a), GoodTracker(h, "body"))
         /\ InvalidIff(oxr_xrDestroyHandTrackerEXT(World, h), GoodTracker(h, "hand"))
         /\ InvalidIff(oxr_xrDestroyFacialTrackerHTC(World, h), GoodTracker(h, "face"))
         /\ InvalidIff(oxr_xrDestroyBodyTrackerFB(World, h), GoodTracker(h, "body"))

\* The part of C23 the code keeps: a handle that is not good is always
\* refused with XR_ERROR_HANDLE_INVALID, and xrBeginSession, xrEndSession,
\* xrGetBodySkeletonFB, xrApplyForceFeedbackCurlMNDX and the destroy calls
\* return it for no other reason.
BadHandleIsInvalid ==
  Between =>
    /\ \A h \in SessionArgHandles :
         /\ \A a \in ThermalArgs :
              ~GoodSession(h) =>
                oxr_xrThermalGetTemperatureTrendEXT(World, h, a).ret = XR_ERROR_HANDLE_INVALID
         /\ \A a \in BeginSessionArgs :
              InvalidIff(oxr_xrBeginSession(World, h, a), GoodSession(h))
         /\ \A a \in InnerArgs :
              InvalidIff(oxr_xrEndSession(World, h, a), GoodSession(h))
         /\ InvalidIff(oxr_xrDestroySession(World, h), GoodSession(h))
    /\ \A h \in TrackerArgHandles :
         /\ \A a \in LocateHandJointsArgs :
              ~GoodTracker(h, "hand") =>
                oxr_xrLocateHandJointsEXT(World, h, a).ret = XR_ERROR_HANDLE_INVALID
         /\ \A a \in ApplyForceFeedbackArgs :
              InvalidIff(oxr_xrApplyForceFeedbackCurlMNDX(World, h, a), GoodTracker(h, "hand"))
         /\ \A a \in GetFacialExpressionsArgs :
              ~GoodTracker(h, "face") =>
                oxr_xrGetFacialExpressionsHTC(World, h, a).ret = XR_ERROR_HANDLE_INVALID
         /\ \A a \in GetBodySkeletonArgs :
              InvalidIff(oxr_xrGetBodySkeletonFB(World, h, a), GoodTracker(h, "body"))
         /\ \A a \in LocateBodyJointsArgs :
              ~GoodTracker(h, "body") =>
                oxr_xrLocateBodyJointsFB(World, h, a).ret = XR_ERROR_HANDLE_INVALID
         /\ InvalidIff(oxr_xrDestroyHandTrackerEXT(World, h), GoodTracker(h, "hand"))
         /\ InvalidIff(oxr_xrDestroyFacialTrackerHTC(World, h), GoodTracker(h, "face"))
         /\ InvalidIff(oxr_xrDestroyBodyTrackerFB(World, h), GoodTracker(h, "body"))

(***************************************************************************)
(* Joint validity flags, checked under SpecRel: the chain holds the        *)
(* joint's relation and the body's relation in the base space.             *)
(***************************************************************************)
\* C24 (as stated): in an active xrLocateBodyJointsFB (the body's relation
\* has some valid component), the location flags written for a joint are
\* those of the components valid in both the joint's relation and the
\* body's relation in the base space.
JointFlagsAreMerged ==
  (Len(chain.steps) = 2 /\ chain.steps[2].relation_flags # XRT_SPACE_RELATION_BITMASK_NONE) =>
    LET src_joint == chain.steps[1]
        T_base_body == chain.steps[2]
    IN LocateBodyJoint(src_joint, T_base_body).locationFlags
         = xrt_to_xr_space_location_flags(
             src_joint.relation_flags \cap T_base_body.relation_flags)

\* What the joint loop does write: the joint's own flags, whatever the
\* body's relation lacks, and the pose the chain resolves to.
JointFlagsAreTheJoints ==
  Len(chain.steps) = 2 =>
    LET src_joint == chain.steps[1]
        T_base_body == chain.steps[2]
        loc == LocateBodyJoint(src_joint, T_base_body)
    IN /\ loc.locationFlags = xrt_to_xr_space_location_flags(src_joint.relation_flags)
       /\ loc.pose = m_relation_chain_resolve(chain.steps).pose
       /\ chain.resolved => loc.pose = chain.result.pose

(***************************************************************************)
(* The device binding of a tracker, checked under SpecTrk.                 *)
(***************************************************************************)
\* No step changes the device, the variant, the kind or the session of a
\* tracker that stays alive.
BindingUnchanged ==
  \A j \in Trackers :
    (trk[j].state = "live" /\ trk'[j].state = "live") =>
      /\ trk'[j].xdev = trk[j].xdev
      /\ trk'[j].variant = trk[j].variant
      /\ trk'[j].kind = trk[j].kind
      /\ trk'[j].sess = trk[j].sess
\* Well-formed body queries, whatever the device's flag holds by now.
SkeletonWellFormed == Enumerated({a \in GetBodySkeletonArgs : a.skeleton = "ok"})
BodyWellFormed == Enumerated({a \in LocateBodyJointsArgs :
                     /\ a.locateInfo = "ok" /\ a.locations = "ok"
                     /\ a.jointLocations = "ok" /\ a.baseSpace = "ok"
                     /\ a.time > 0 /\ ~a.fidelity})

\* C25 (as stated): no step changes the device reference or the variant of
\* a live tracker, and a well-formed query on a body tracker that was
\* created successfully is never refused for a check of its device: it
\* asks the recorded device and returns what comes of that.
BindingFixedAtCreation ==
  /\ [][BindingUnchanged]_vars
  /\ [](Between =>
          \A j \in Trackers :
            Usable(j) /\ LiveTracker(j, "body") =>
              /\ \A a \in SkeletonWellFormed :
                   a.jointCount >= BodyJointCount(j) =>
                     LET r == oxr_xrGetBodySkeletonFB(World, TrackerHandle(j), a)
                     IN r.ret # XR_ERROR_FUNCTION_UNSUPPORTED /\ Len(r.calls) >= 1
              /\ \A a \in BodyWellFormed :
                   a.jointCount >= BodyJointCount(j) =>
                     LET r == oxr_xrLocateBodyJointsFB(World, TrackerHandle(j), a)
                     IN r.ret # XR_ERROR_FUNCTION_UNSUPPORTED /\ Len(r.calls) >= 1)

\* The part of C25 the code keeps: the binding of a live tracker never
\* changes, and a query changes no state at all.
BindingNeverChanges ==
  /\ [][BindingUnchanged]_vars
  /\ [](Between =>
          \A j \in Trackers :
            LiveTracker(j, "body") =>
              /\ \A a \in GetBodySkeletonArgs :
                   oxr_xrGetBodySkeletonFB(World, TrackerHandle(j), a).w = World
              /\ \A a \in LocateBodyJointsArgs :
                   oxr_xrLocateBodyJointsFB(World, TrackerHandle(j), a).w = World)

(***************************************************************************)
(* The instance's session list, checked under Spec.  Session objects are   *)
(* handed out in the order of their numbers and never reused, so creation  *)
(* order is the order of the numbers.                                      *)
(***************************************************************************)
\* The sequence without its element x.
RECURSIVE Without(_, _)
Without(q, x) ==
  IF q = <<>> THEN <<>>
  ELSE IF Head(q) = x THEN Without(Tail(q), x)
  ELSE <<Head(q)>> \o Without(Tail(q), x)
\* The list of world w holds exactly its live sessions, each once, in
\* creation order.
ListExact(w) ==
  LET q == SessionList(w) IN
  /\ Len(q) <= MaxSessions
  /\ {q[k] : k \in 1..Len(q)} = {i \in Sessions : w.sess[i].state = "live"}
  /\ \A k \in 1..(Len(q) - 1) : q[k] < q[k + 1]

\* C26: the session list holds exactly the sessions created and not yet
\* destroyed, each once, in creation order; a successful xrCreateSession
\* appends the new session, a failed one changes nothing; the walk of
\* xrDestroySession finds every live session, and the call takes that
\* session out and leaves the others in their order.
SessionListExact ==
  /\ ListExact(World)
  /\ Between =>
       /\ \A a \in CreateSessionArgs :
            LET r == oxr_xrCreateSession(World, a)
            IN /\ r.ret # XR_SUCCESS => r.w = World
               /\ r.ret = XR_SUCCESS =>
                    /\ SessionList(r.w) = Append(SessionList(World), FreshSession(World))
                    /\ ListExact(r.w)
       /\ \A i \in Sessions :
            Live(i) =>
              LET r == oxr_xrDestroySession(World, SessionHandle(i))
              IN /\ WalkTo(World, 0, i) # -1
                 /\ r.ret = XR_SUCCESS
                 /\ SessionList(r.w) = Without(SessionList(World), i)
                 /\ ListExact(r.w)

\* The first of two sessions was destroyed, and the list holds the second.
SessionListExactSeen ==
  /\ last.op = "xrDestroySession"
  /\ last.ret = XR_SUCCESS
  /\ last.h = SessionHandle(1)
  /\ SessionList(World) = <<2>>
  /\ sessions = 2

(***************************************************************************)
(* Tracker creation is all or nothing, checked under SpecTrk.              *)
(***************************************************************************)
\* Result r of a tracker creation on handle h in the current world either
\* is a failure that changed nothing, or attached exactly one new live
\* tracker of the kind to the session.
AllOrNothing(r, h, kind) ==
  /\ r.ret # "CRASH"
  /\ r.ret # XR_SUCCESS => r.w = World
  /\ r.ret = XR_SUCCESS =>
       /\ IsSession(h)
       /\ LET i == h[2]
              new == FreshTracker(World)
          IN /\ new # 0
             /\ new \notin sess[i].children
             /\ r.w.sess[i].children = sess[i].children \cup {new}
             /\ r.w.trk[new].state = "live"
             /\ r.w.trk[new].kind = kind
             /\ r.w.trk[new].sess = i
             /\ \A j \in Trackers \ {new} : r.w.trk[j] = trk[j]

\* C27: a tracker creation call (hand, body, face) that returns a
\* non-success code leaves the whole world, the session's child set
\* included, as it was, whichever check refused it and also when the
\* allocation itself fails; a successful one attaches exactly one new
\* tracker; every live tracker is a child of its session and every child is
\* a live tracker.
CreateFailureChangesNothing ==
  /\ \A j \in Trackers :
       trk[j].state = "live" <=>
         \E i \in Sessions : Live(i) /\ j \in sess[i].children
  /\ \A j \in Trackers :
       trk[j].state = "live" => j \in sess[trk[j].sess].children
  /\ Between =>
       \A h \in SessionArgHandles :
         /\ \A a \in CreateHandTrackerArgs :
              AllOrNothing(oxr_xrCreateHandTrackerEXT(World, h, a), h, "hand")
         /\ \A a \in CreateBodyTrackerArgs :
              AllOrNothing(oxr_xrCreateBodyTrackerFB(World, h, a), h, "body")
         /\ \A a \in CreateFacialTrackerArgs :
              AllOrNothing(oxr_xrCreateFacialTrackerHTC(World, h, a), h, "face")

\* xrCreateFacialTrackerHTC passed the session, argument and extension
\* checks of a session that has a tracker and was refused for want of a
\* device, and the session's children are the live trackers still.
CreateFailureChangesNothingSeen ==
  /\ last.op = "xrCreateFacialTrackerHTC"
  /\ IsSession(last.h)
  /\ last.a.createInfo = "ok"
  /\ last.a.xdev = NoDev
  /\ last.ret = XR_ERROR_FEATURE_UNSUPPORTED
  /\ sess[LastSession].children # {}
  /\ sess[LastSession].children = {j \in Trackers : trk[j].state = "live"}

(***************************************************************************)
(* xrBeginSession on a running session, checked under Spec.                *)
(***************************************************************************)
\* C28: on a live, not-lost session that has begun, xrBeginSession with a
\* non-null, typed beginInfo whose view configuration type is a value of
\* the enumeration returns XR_ERROR_SESSION_RUNNING, calls nothing and
\* changes nothing, whether the system drives that view configuration or
\* not and whatever the session layer would have answered; the same call
\* with a view configuration the system does not drive, made on a session
\* that has not begun, is refused as unsupported.
RunningBeforeViewConfig ==
  Between =>
    \A i \in Sessions : \A a \in BeginSessionWellFormed :
      NotLost(i) =>
        LET r == oxr_xrBeginSession(World, SessionHandle(i), a)
        IN /\ sess[i].has_begun =>
                /\ r.ret = XR_ERROR_SESSION_RUNNING
                /\ r.w = World
                /\ r.calls = <<>>
           /\ (~sess[i].has_begun /\ a.viewType = "other") =>
                /\ r.ret = XR_ERROR_VIEW_CONFIGURATION_TYPE_UNSUPPORTED
                /\ r.w = World

\* An xrBeginSession asking for a view configuration the system does not
\* drive was refused because the session is running.
RunningBeforeViewConfigSeen ==
  /\ last.op = "xrBeginSession"
  /\ IsSession(last.h)
  /\ NotLost(LastSession)
  /\ sess[LastSession].has_begun
  /\ last.a.beginInfo = "ok"
  /\ last.a.viewType = "other"
  /\ last.ret = XR_ERROR_SESSION_RUNNING

(***************************************************************************)
(* Who changes has_begun, checked under Spec.  The session entrypoints are *)
(* the steps of Spec; the tracker entrypoints are applied to the worlds    *)
(* Spec reaches and to those worlds with one tracker created in them.      *)
(***************************************************************************)
\* World w1 has the has_begun of every session that is live in both w0
\* and w1 as w0 has it.
KeepsBegun(w0, w1) ==
  \A i \in Sessions :
    (w0.sess[i].state = "live" /\ w1.sess[i].state = "live") =>
      w1.sess[i].has_begun = w0.sess[i].has_begun

\* The current world with a tracker of the kind created in session i, if
\* the creation is accepted.
WithTracker(i, kind) ==
  IF kind = "hand"
  THEN oxr_xrCreateHandTrackerEXT(World, SessionHandle(i), CreateHandTrackerValid).w
  ELSE IF kind = "body"
  THEN oxr_xrCreateBodyTrackerFB(World, SessionHandle(i), CreateBodyTrackerValid).w
  ELSE IF kind = "face"
  THEN oxr_xrCreateFacialTrackerHTC(World, SessionHandle(i), CreateFacialTrackerValid).w
  ELSE World

\* No tracker creation changes has_begun in the current world, and no
\* tracker destruction or query changes it in world w.
TrackerCallsKeepBegun(w) ==
  /\ \A c \in CreateHandTrackerCalls :
       KeepsBegun(World, oxr_xrCreateHandTrackerEXT(World, c[1], c[2]).w)
  /\ \A c \in CreateFacialTrackerCalls :
       KeepsBegun(World, oxr_xrCreateFacialTrackerHTC(World, c[1], c[2]).w)
  /\ \A c \in CreateBodyTrackerCalls :
       KeepsBegun(World, oxr_xrCreateBodyTrackerFB(World, c[1], c[2]).w)
  /\ \A h \in TrackerArgHandles :
       /\ KeepsBegun(w, oxr_xrDestroyHandTrackerEXT(w, h).w)
       /\ KeepsBegun(w, oxr_xrDestroyFacialTrackerHTC(w, h).w)
       /\ KeepsBegun(w, oxr_xrDestroyBodyTrackerFB(w, h).w)
       /\ \A a \in ApplyForceFeedbackArgs :
            KeepsBegun(w, oxr_xrApplyForceFeedbackCurlMNDX(w, h, a).w)
       /\ \A a \in GetBodySkeletonArgs :
            KeepsBegun(w, oxr_xrGetBodySkeletonFB(w, h, a).w)
       /\ \A a \in InnerArgs :
            KeepsBegun(w, oxr_xrRequestBodyTrackingFidelityMETA(w, h, a).w)
  /\ \A c \in LocateHandJointsCalls :
       KeepsBegun(w, oxr_xrLocateHandJointsEXT(w, c[1], c[2]).w)
  /\ \A c \in GetFacialExpressionsCalls :
       KeepsBegun(w, oxr_xrGetFacialExpressionsHTC(w, c[1], c[2]).w)
  /\ \A c \in LocateBodyJointsCalls :
       KeepsBegun(w, oxr_xrLocateBodyJointsFB(w, c[1], c[2]).w)

\* A step leaves has_begun of session i alone, or is a successful
\* xrBeginSession on i that sets it, or a successful xrEndSession on i
\* that clears it; a session that comes into being has it false.
BegunStep(i) ==
  /\ (sess[i].state # "live" /\ sess'[i].state = "live") =>
       /\ ~sess'[i].has_begun
       /\ last'.op = "xrCreateSession"
       /\ last'.ret = XR_SUCCESS
  /\ (sess[i].state = "live" /\ sess'[i].state = "live"
        /\ sess'[i].has_begun # sess[i].has_begun) =>
       /\ last.op = "none"
       /\ last'.h = SessionHandle(i)
       /\ last'.ret = XR_SUCCESS
       /\ \/ last'.op = "xrBeginSession" /\ ~sess[i].has_begun /\ sess'[i].has_begun
          \/ last'.op = "xrEndSession" /\ sess[i].has_begun /\ ~sess'[i].has_begun
  /\ (last.op = "none" /\ last'.ret = XR_SUCCESS /\ last'.h = SessionHandle(i)) =>
       /\ last'.op = "xrBeginSession" => ~sess[i].has_begun /\ sess'[i].has_begun
       /\ last'.op = "xrEndSession" => sess[i].has_begun /\ ~sess'[i].has_begun

\* C29: has_begun is false in a session just created and is changed only
\* by a successful xrBeginSession (false to true) and a successful
\* xrEndSession (true to false), each of which does change it; every other
\* session entrypoint, failing xrBeginSession and xrEndSession included,
\* and every tracker creation, destruction and query leaves it as it was.
BegunOnlyByBeginAndEnd ==
  /\ [][\A i \in Sessions : BegunStep(i)]_vars
  /\ [](Between =>
         /\ TrackerCallsKeepBegun(World)
         /\ \A i \in Sessions : \A kind \in {"hand", "body", "face"} :
              /\ KeepsBegun(World, WithTracker(i, kind))
              /\ TrackerCallsKeepBegun(WithTracker(i, kind)))

\* xrEndFrame returned success on a running session, the session is
\* running still, and a body tracker can be created in it.
BegunOnlyByBeginAndEndSeen ==
  /\ last.op = "xrEndFrame"
  /\ last.ret = XR_SUCCESS
  /\ IsSession(last.h)
  /\ sess[LastSession].has_begun
  /\ WithTracker(LastSession, "body") # World

(***************************************************************************)
(* xrCreateSession and xrDestroySession step by step, by two threads on    *)
(* one instance.  Neither function takes a lock: each statement of the     *)
(* list walk and each store to a link is a step of its own, and the steps  *)
(* of the two threads interleave freely.  The threads start from a list a  *)
(* single thread has built.                                                *)
(***************************************************************************)
CreateSessionValid == [instance |-> "ok", verify |-> XR_SUCCESS, create |-> XR_SUCCESS]
EmptyWorld ==
  [sessions |-> 0, sess |-> [i \in Sessions |-> NoSession],
   trk |-> [j \in Trackers |-> NoTracker], rate |-> 0]
\* The world after n successful xrCreateSession calls.
RECURSIVE Created(_)
Created(n) ==
  IF n = 0 THEN EmptyWorld ELSE oxr_xrCreateSession(Created(n - 1), CreateSessionValid).w

InitConc ==
  /\ \E n \in 0..MaxSessions :
       /\ sessions = Created(n).sessions
       /\ sess = Created(n).sess
  /\ trk = [j \in Trackers |-> NoTracker]
  /\ ext = Extensions
  /\ xsysc = [null |-> TRUE, rates |-> <<>>]
  /\ rate = 0
  /\ last = Idle
  /\ chain = NoChain
  /\ thread = NoThreads
  /\ overlap = FALSE

Busy(t) == thread[t].pc # "idle"
\* The thread's link points into a session object that has been freed.
Dangling(t) == thread[t].link # 0 /\ sess[thread[t].link].state # "live"
\* Thread t enters a call.
Enter(t, pc, s) ==
  /\ thread' = [thread EXCEPT ![t] = [pc |-> pc, link |-> 0, s |-> s]]
  /\ overlap' = (overlap \/ \E u \in Threads \ {t} : Busy(u))
\* A read or write through a dangling link: the thread faults, or the step
\* goes on with what the freed object holds.
Fault(t) ==
  /\ Dangling(t)
  /\ thread' = [thread EXCEPT ![t].pc = "fault"]
  /\ UNCHANGED <<sessions, sess, trk, ext, xsysc, rate, last, chain, overlap>>

\* Lines 46-61: the checks pass, oxr_session_create returns a new session,
\* link = &inst->sessions.
CreateEnter(t) ==
  /\ ~Busy(t)
  /\ FreshSession(World) # 0
  /\ LET new == FreshSession(World)
     IN /\ sess' = [sess EXCEPT ![new] = [NoSession EXCEPT !.state = "live"]]
        /\ Enter(t, "create_walk", new)
  /\ UNCHANGED <<sessions, trk, ext, xsysc, rate, last, chain>>

\* Lines 62-64: one test of while (*link) and, when it holds, the body.
CreateWalk(t) ==
  /\ thread[t].pc = "create_walk"
  /\ \/ Fault(t)
     \/ /\ thread' = [thread EXCEPT ![t] =
                        IF Deref(World, thread[t].link) = 0
                        THEN [@ EXCEPT !.pc = "create_store"]
                        ELSE [@ EXCEPT !.link = Deref(World, thread[t].link)]]
        /\ UNCHANGED <<sessions, sess, trk, ext, xsysc, rate, last, chain, overlap>>

\* Line 65: *link = sess, and the call returns.
CreateStore(t) ==
  /\ thread[t].pc = "create_store"
  /\ \/ Fault(t)
     \/ /\ sessions' = SetLink(World, thread[t].link, thread[t].s).sessions
        /\ sess' = SetLink(World, thread[t].link, thread[t].s).sess
        /\ thread' = [thread EXCEPT ![t] = NoThread]
        /\ UNCHANGED <<trk, ext, xsysc, rate, last, chain, overlap>>

\* Lines 79-83: the handle is verified, link = &inst->sessions.  The
\* application destroys a session it holds the handle of, and does not
\* destroy one session from two threads.
DestroyEnter(t) ==
  /\ ~Busy(t)
  /\ \E i \in Sessions :
       /\ OXR_VERIFY_SESSION(World, SessionHandle(i)) = XR_SUCCESS
       /\ \A u \in Threads : thread[u].s # i
       /\ Enter(t, "destroy_walk", i)
  /\ UNCHANGED <<sessions, sess, trk, ext, xsysc, rate, last, chain>>

\* Lines 84-86: one test of while (*link != sess) and, when it holds, the
\* body; with *link null the body takes the address of the next field of
\* no object, and the next test reads through it.
DestroyWalk(t) ==
  /\ thread[t].pc = "destroy_walk"
  /\ \/ Fault(t)
     \/ /\ thread' = [thread EXCEPT ![t] =
                        IF Deref(World, thread[t].link) = thread[t].s
                        THEN [@ EXCEPT !.pc = "destroy_unlink"]
                        ELSE IF Deref(World, thread[t].link) = 0
                        THEN [@ EXCEPT !.pc = "past_end"]
                        ELSE [@ EXCEPT !.link = Deref(World, thread[t].link)]]
        /\ UNCHANGED <<sessions, sess, trk, ext, xsysc, rate, last, chain, overlap>>

\* Line 87: *link = sess->next.
DestroyUnlink(t) ==
  /\ thread[t].pc = "destroy_unlink"
  /\ \/ Fault(t)
     \/ /\ sessions' = SetLink(World, thread[t].link, sess[thread[t].s].next).sessions
        /\ sess' = SetLink(World, thread[t].link, sess[thread[t].s].next).sess
        /\ thread' = [thread EXCEPT ![t].pc = "destroy_handle"]
        /\ UNCHANGED <<trk, ext, xsysc, rate, last, chain, overlap>>

\* Line 89: oxr_handle_destroy, and the call returns.
DestroyHandle(t) ==
  /\ thread[t].pc = "destroy_handle"
  /\ LET r == oxr_handle_destroy(World, SessionHandle(thread[t].s))
     IN /\ sessions' = r.w.sessions
        /\ sess' = r.w.sess
        /\ trk' = r.w.trk
  /\ thread' = [thread EXCEPT ![t] = NoThread]
  /\ UNCHANGED <<ext, xsysc, rate, last, chain, overlap>>

NextConc ==
  \E t \in Threads :
    \/ CreateEnter(t) \/ CreateWalk(t) \/ CreateStore(t)
    \/ DestroyEnter(t) \/ DestroyWalk(t) \/ DestroyUnlink(t) \/ DestroyHandle(t)

SpecConc == InitConc /\ [][NextConc]_vars

\* No thread has read through a null or a dangling link, and when no thread
\* is inside a call the list holds exactly the live sessions.
ListSound ==
  /\ \A t \in Threads : thread[t].pc \notin {"past_end", "fault"}
  /\ (\A t \in Threads : ~Busy(t)) => ListExact(World)

\* C30 (as the spec has it): whatever the interleaving of two threads
\* inside xrCreateSession and xrDestroySession, the unlink walk never runs
\* past the end of the list, and when both calls have returned the list
\* holds exactly the sessions created and not destroyed.
ConcurrentListExact == ListSound

\* What the code does keep: as long as no call was entered while another
\* thread was inside one, the walk finds its session and the list holds
\* exactly the live sessions.
SerialListExact == ~overlap => ListSound

(***************************************************************************)
(* What a query writes against what the caller declared, checked under     *)
(* SpecTrk.                                                                *)
(***************************************************************************)
\* The largest number of entries of the caller's array that result r wrote:
\* location flags, poses or weights.
Written(r) ==
  IF r.out.nflags >= r.out.nposes /\ r.out.nflags >= r.out.nelems THEN r.out.nflags
  ELSE IF r.out.nposes >= r.out.nelems THEN r.out.nposes
  ELSE r.out.nelems

\* xrLocateBodyJointsFB calls whose pointers, base space and time pass,
\* with every capacity and every outcome of the device, of the base pose
\* and of the fidelity request.
LocateBodyPaths ==
  Enumerated({a \in LocateBodyJointsAll :
                /\ a.locateInfo = "ok" /\ a.locations = "ok"
                /\ a.jointLocations = "ok" /\ a.baseSpace = "ok"
                /\ a.time = 1})
FacePaths ==
  Enumerated({a \in GetFacialExpressionsAll :
                a.facialExpressions = "ok" /\ a.expressionWeightings = "ok"})

\* C31: xrLocateBodyJointsFB, on the active and on the inactive path and
\* for either joint set, xrGetBodySkeletonFB and xrGetFacialExpressionsHTC
\* write at most as many joint or expression entries as the caller's
\* jointCount or expressionCount, whatever the handle and the arguments; a
\* call that writes entries writes the first ones of the array, and a call
\* refused for its capacity writes none.  For the face query this is also
\* so of the code that follows the handle check (lines 803-849) when it
\* runs on an eye or lip tracker.
WritesWithinCapacity ==
  Between =>
    /\ \A h \in TrackerArgHandles :
         /\ \A a \in LocateBodyPaths \cup LocateBodyJointsArgs :
              LET r == oxr_xrLocateBodyJointsFB(World, h, a)
              IN /\ Written(r) <= a.jointCount
                 /\ r.ret = XR_ERROR_VALIDATION_FAILURE => Written(r) = 0
         /\ \A a \in GetBodySkeletonArgs :
              LET r == oxr_xrGetBodySkeletonFB(World, h, a)
              IN /\ Written(r) <= a.jointCount
                 /\ r.ret # XR_SUCCESS => Written(r) = 0
         /\ \A a \in FacePaths \cup GetFacialExpressionsArgs :
              Written(oxr_xrGetFacialExpressionsHTC(World, h, a)) <= a.expressionCount
    /\ \A j \in Trackers : \A a \in FacePaths :
         (LiveTracker(j, "face") /\ trk[j].variant \in {"EYE", "LIP"}) =>
           LET r == GetFacialExpressions_OfHandle(World, TrackerHandle(j), a)
           IN /\ Written(r) <= a.expressionCount
              /\ r.ret = XR_ERROR_SIZE_INSUFFICIENT => Written(r) = 0

\* xrLocateBodyJointsFB on a full-body tracker took the inactive path and
\* cleared the flags of the first XRT_BODY_JOINT_COUNT_FB entries of an
\* array declared with XRT_FULL_BODY_JOINT_COUNT_META.
WritesWithinCapacitySeen ==
  /\ last.op = "xrLocateBodyJointsFB"
  /\ last.ret = XR_SUCCESS
  /\ IsTracker(last.h)
  /\ TrkRec(World, last.h).variant = "FULL_BODY_META"
  /\ last.a.jointCount = XRT_FULL_BODY_JOINT_COUNT_META
  /\ last.out.isActive = "XR_FALSE"
  /\ last.out.nflags = XRT_BODY_JOINT_COUNT_FB

=============================================================================
